---------------------------- MODULE Spec2Model ----------------------------
(***************************************************************************)
(* Bezier-patch mesh of libs/image/tests/kis_mesh_transform_worker_test.cpp *)
(* (struct Node, struct BezierPatch, struct BezierMesh and                  *)
(* BezierMesh::iterator, with the geometry primitives they call).          *)
(*                                                                         *)
(* qreal values are modelled as exact rationals <<n, d>> in lowest terms   *)
(* (d > 0), so every equality below is an equality of exact arithmetic;    *)
(* the rounding of IEEE doubles is not modelled.  The argument t of a     *)
(* subdivision is a rational plus a whole number of 10^-13 offsets, which  *)
(* is the only place where the tolerance of qFuzzyCompare can be reached.  *)
(***************************************************************************)
EXTENDS Integers, Sequences, FiniteSets, TLC

(***************************************************************************)
(* Bounds of the model.                                                    *)
(***************************************************************************)
\* subdivision is not called once a dimension of the mesh has reached MaxDim
MaxDim == 4
\* largest |n| passed to iterator::advance
MaxAdv == 5

\* a local variable: v is evaluated once and Body sees its value
Bind(v, Body(_)) == CHOOSE r \in {Body(x) : x \in {v}} : TRUE

(***************************************************************************)
(* Exact rational arithmetic standing for qreal.                           *)
(***************************************************************************)
Abs(x) == IF x < 0 THEN -x ELSE x

RECURSIVE GCD(_, _)
GCD(a, b) == IF b = 0 THEN a ELSE GCD(b, a % b)

Norm(n, d) ==
    LET g == GCD(Abs(n), d)
    IN  IF n = 0 THEN <<0, 1>> ELSE <<n \div g, d \div g>>

R(n, d) == Norm(n, d)
RInt(n) == <<n, 1>>
Zero == <<0, 1>>
One == <<1, 1>>

RAdd(a, b) ==
    LET g == GCD(a[2], b[2])
        l == (a[2] \div g) * b[2]
    IN  Norm(a[1] * (l \div a[2]) + b[1] * (l \div b[2]), l)

RNeg(a) == <<-a[1], a[2]>>
RSub(a, b) == RAdd(a, RNeg(b))

RMul(a, b) ==
    IF a[1] = 0 \/ b[1] = 0 THEN Zero
    ELSE LET g1 == GCD(Abs(a[1]), b[2])
             g2 == GCD(Abs(b[1]), a[2])
         IN  <<(a[1] \div g1) * (b[1] \div g2), (a[2] \div g2) * (b[2] \div g1)>>

\* a / b for b # 0
RDiv(a, b) ==
    IF b[1] > 0 THEN RMul(a, <<b[2], b[1]>>) ELSE RMul(a, <<-b[2], -b[1]>>)

RLt(a, b) == a[1] * b[2] < b[1] * a[2]
RLe(a, b) == a[1] * b[2] <= b[1] * a[2]
RAbs(a) == <<Abs(a[1]), a[2]>>
RMin(a, b) == IF RLt(b, a) THEN b ELSE a

(***************************************************************************)
(* QPointF: a pair <<x, y>> of rationals.                                  *)
(***************************************************************************)
Pt(x, y) == <<x, y>>
PAdd(p, q) == <<RAdd(p[1], q[1]), RAdd(p[2], q[2])>>
PSub(p, q) == <<RSub(p[1], q[1]), RSub(p[2], q[2])>>
PScale(s, p) == <<RMul(s, p[1]), RMul(s, p[2])>>

\* template lerp: pt1 + (pt2 - pt1) * t
lerp(pt1, pt2, t) == PAdd(pt1, PScale(t, PSub(pt2, pt1)))

\* bezierCurve: the Bernstein form of the cubic
bezierCurve(p0, p1, p2, p3, t) ==
    LET t_2 == RMul(t, t)
        t_3 == RMul(t_2, t)
        t_inv == RSub(One, t)
        t_inv_2 == RMul(t_inv, t_inv)
        t_inv_3 == RMul(t_inv_2, t_inv)
    IN  PAdd(PAdd(PScale(t_inv_3, p0),
                  PScale(RMul(RMul(RInt(3), t_inv_2), t), p1)),
             PAdd(PScale(RMul(RMul(RInt(3), t_inv), t_2), p2),
                  PScale(t_3, p3)))

\* the step taken at the middle whatever t is
DcStep_Midpoint(a, b, t) == PAdd(PScale(R(1, 2), a), PScale(R(1, 2), b))

\* one step q[i] = (1.0 - t) * q[i] + t * q[i + 1] of deCasteljau
DcStep(a, b, t) == PAdd(PScale(RSub(One, t), a), PScale(t, b))

\* deCasteljau storing p[1] where the split point p[2] belongs
deCasteljau_SplitFromSecondLevel(q0, q1, q2, q3, t) ==
    Bind(<<DcStep(q0, q1, t), DcStep(q1, q2, t), DcStep(q2, q3, t)>>, LAMBDA a :
    Bind(<<DcStep(a[1], a[2], t), DcStep(a[2], a[3], t)>>, LAMBDA b :
         <<a[1], b[1], b[1], b[2], a[3]>>))

\* deCasteljau: the outputs <<*p0, *p1, *p2, *p3, *p4>>; a and b are the
\* array q after the passes j = 1 and j = 2, and the pass j = 3 gives p[2]
deCasteljau(q0, q1, q2, q3, t) ==
    Bind(<<DcStep(q0, q1, t), DcStep(q1, q2, t), DcStep(q2, q3, t)>>, LAMBDA a :
    Bind(<<DcStep(a[1], a[2], t), DcStep(a[2], a[3], t)>>, LAMBDA b :
         <<a[1], b[1], DcStep(b[1], b[2], t), b[2], a[3]>>))


(***************************************************************************)
(* The argument of a subdivision: the double r + ulp * 10^-13, written     *)
(* [r |-> <<n, d>>, ulp |-> k].  The offset is smaller than the distance   *)
(* between any two rationals of the model, so two arguments are ordered by *)
(* r first and by ulp second.                                              *)
(***************************************************************************)
Real(r, k) == [r |-> r, ulp |-> k]
Exact(r) == Real(r, 0)

RealLt(a, b) == RLt(a.r, b.r) \/ (a.r = b.r /\ a.ulp < b.ulp)

\* the factor 1000000000000. of qFuzzyCompare is FuzzyScaleRoot squared
FuzzyScaleRoot == 1000 * 1000

\* qFuzzyCompare(p1, p2): qAbs(p1 - p2) * 1000000000000. <= qMin(qAbs(p1), qAbs(p2))
qFuzzyCompare(p1, p2) ==
    LET m == RMin(RAbs(p1.r), RAbs(p2.r))
        d == RAbs(RSub(p1.r, p2.r))
        k == Abs(p1.ulp - p2.ulp)
    IN  IF d = Zero
        THEN \* |p1 - p2| = k * 10^-13, so the left side is k / 10
             k = 0 \/ RLe(<<k, 10>>, m)
        ELSE \* d * 10^12 <= m  iff  10^12 <= floor(m / d)
             ((m[1] * d[2]) \div (d[1] * m[2])) \div FuzzyScaleRoot >= FuzzyScaleRoot

(***************************************************************************)
(* struct Node                                                             *)
(***************************************************************************)
\* Node(const QPointF &_node): the four controls coincide with the node
Node(n) ==
    [leftControl |-> n, topControl |-> n, node |-> n,
     rightControl |-> n, bottomControl |-> n]

(***************************************************************************)
(* struct BezierMesh                                                       *)
(***************************************************************************)
VARIABLES
    m_nodes,         \* std::vector<Node>, row-major
    m_rows,          \* std::vector<qreal>
    m_columns,       \* std::vector<qreal>
    m_size,          \* QSize: [w, h]
    m_originalRect,  \* QRectF: [x, y, w, h]
    it,              \* one BezierMesh::iterator: [col, row]
    lastCall,        \* the call that produced this state: [op, t, n, asserted]
    patch,           \* one BezierPatch: [originalRect, points]
    ret,             \* the last call on a patch, curve or node: arguments and result
    frame            \* the locals of the call in progress, one loop pass per step

vars == <<m_nodes, m_rows, m_columns, m_size, m_originalRect, it, lastCall,
          patch, ret, frame>>
mesh == <<m_nodes, m_rows, m_columns, m_size, m_originalRect>>

\* the arguments the constructor is called with
InitRects == { [x |-> RInt(10), y |-> RInt(20), w |-> RInt(30), h |-> RInt(60)] }
InitSizes == { [w |-> 2, h |-> 2], [w |-> 3, h |-> 2], [w |-> 2, h |-> 3] }

\* the arguments subdivideRow and subdivideColumn are called with
TValues ==
    { Exact(R(-1, 2)), Exact(Zero), Exact(R(1, 4)), Exact(R(1, 2)),
      Exact(R(3, 4)), Exact(One), Exact(R(3, 2)),
      Real(One, -1), Real(One, 1) }

\* the positions divided by the size in place of the size less one
CtorNode_DivideBySize(mapRect, size, col, row) ==
    LET yPos == RAdd(RMul(R(row, size.h), mapRect.h), mapRect.y)
        xPos == RAdd(RMul(R(col, size.w), mapRect.w), mapRect.x)
    IN  Node(Pt(xPos, yPos))

\* the constructor's node at (col, row)
CtorNode(mapRect, size, col, row) ==
    LET yPos == RAdd(RMul(R(row, size.h - 1), mapRect.h), mapRect.y)
        xPos == RAdd(RMul(R(col, size.w - 1), mapRect.w), mapRect.x)
    IN  Node(Pt(xPos, yPos))

\* BezierMesh::BezierMesh(mapRect, size)
Construct(mapRect, size) ==
    /\ m_size = size
    /\ m_originalRect = mapRect
    /\ m_nodes = [k \in 1..(size.w * size.h) |->
                    CtorNode(mapRect, size, (k - 1) % size.w, (k - 1) \div size.w)]
    /\ m_columns = [c \in 1..size.w |-> R(c - 1, size.w - 1)]
    /\ m_rows = [r \in 1..size.h |-> R(r - 1, size.h - 1)]

\* index into m_nodes (1-based) of node(col, row): row * m_size.width() + col
NodeIndex(col, row, w) == row * w + col + 1

\* node(col, row) of a node vector of width w
node(nodes, w, col, row) == nodes[NodeIndex(col, row, w)]

\* the split written to the outer controls of the two endpoints
splitCurveHorizontally_OuterControls(left, right, t) ==
    Bind(deCasteljau(left.node, left.rightControl, right.leftControl, right.node, t),
         LAMBDA dc :
    LET nn == dc[3]
    IN  << [left EXCEPT !.leftControl = dc[1]],
           [right EXCEPT !.rightControl = dc[5]],
           [leftControl |-> dc[2],
            node |-> nn,
            rightControl |-> dc[4],
            topControl |-> PAdd(nn, lerp(PSub(left.topControl, left.node),
                                         PSub(right.topControl, right.node), t)),
            bottomControl |-> PAdd(nn, lerp(PSub(left.bottomControl, left.node),
                                            PSub(right.bottomControl, right.node), t))] >>)

\* splitCurveHorizontally: <<left, right, newNode>> after the call
splitCurveHorizontally(left, right, t) ==
    Bind(deCasteljau(left.node, left.rightControl, right.leftControl, right.node, t),
         LAMBDA dc :
    LET nn == dc[3]
    IN  << [left EXCEPT !.rightControl = dc[1]],
           [right EXCEPT !.leftControl = dc[5]],
           [leftControl |-> dc[2],
            node |-> nn,
            rightControl |-> dc[4],
            topControl |-> PAdd(nn, lerp(PSub(left.topControl, left.node),
                                         PSub(right.topControl, right.node), t)),
            bottomControl |-> PAdd(nn, lerp(PSub(left.bottomControl, left.node),
                                            PSub(right.bottomControl, right.node), t))] >>)

\* the controls of the endpoints interpolated in place of their offsets
splitCurveVertically_LerpAbsolute(top, bottom, t) ==
    Bind(deCasteljau(top.node, top.bottomControl, bottom.topControl, bottom.node, t),
         LAMBDA dc :
         << [top EXCEPT !.bottomControl = dc[1]],
            [bottom EXCEPT !.topControl = dc[5]],
            [topControl |-> dc[2],
             node |-> dc[3],
             bottomControl |-> dc[4],
             leftControl |-> lerp(top.leftControl, bottom.leftControl, t),
             rightControl |-> lerp(top.rightControl, bottom.rightControl, t)] >>)

\* splitCurveVertically: <<top, bottom, newNode>> after the call
splitCurveVertically(top, bottom, t) ==
    Bind(deCasteljau(top.node, top.bottomControl, bottom.topControl, bottom.node, t),
         LAMBDA dc :
    LET nn == dc[3]
    IN  << [top EXCEPT !.bottomControl = dc[1]],
           [bottom EXCEPT !.topControl = dc[5]],
           [topControl |-> dc[2],
            node |-> nn,
            bottomControl |-> dc[4],
            leftControl |-> PAdd(nn, lerp(PSub(top.leftControl, top.node),
                                          PSub(bottom.leftControl, bottom.node), t)),
            rightControl |-> PAdd(nn, lerp(PSub(top.rightControl, top.node),
                                           PSub(bottom.rightControl, bottom.node), t))] >>)

\* lower_bound in place of upper_bound: the first element not less than t
RECURSIVE UpperBound_LowerBound(_, _, _)
UpperBound_LowerBound(seq, t, i) ==
    IF i > Len(seq) THEN i
    ELSE IF ~RLt(seq[i], t) THEN i
    ELSE UpperBound_LowerBound(seq, t, i + 1)

\* prev(upper_bound(begin, end, t)): 1-based index of the last position <= t
\* (upper_bound scans a sorted range for the first element greater than t)
RECURSIVE UpperBound(_, _, _)
UpperBound(seq, t, i) ==
    IF i > Len(seq) THEN i
    ELSE IF RLt(t, seq[i]) THEN i
    ELSE UpperBound(seq, t, i + 1)

PrevUpperBound(seq, t) == UpperBound(seq, t, 1) - 1

\* push_back in place of insert
InsertAt_Append(seq, i, e) == seq \o <<e>>

\* std::vector::insert of one element before 1-based index i
InsertAt(seq, i, e) == SubSeq(seq, 1, i - 1) \o <<e>> \o SubSeq(seq, i, Len(seq))

\* the new range copied over the elements at i instead of inserted
InsertRange_Overwrite(seq, i, r) ==
    SubSeq(seq, 1, i - 1) \o r \o SubSeq(seq, i + Len(r), Len(seq))

\* std::vector::insert of a range before 1-based index i
InsertRange(seq, i, r) == SubSeq(seq, 1, i - 1) \o r \o SubSeq(seq, i, Len(seq))

(***************************************************************************)
(* subdivideRow / subdivideColumn.  Each operator gives the members of the *)
(* mesh after the call and whether KIS_SAFE_ASSERT_RECOVER_RETURN failed.  *)
(***************************************************************************)
\* an early return: nothing of the mesh is written
Return(nodes, rows, columns, size) ==
    [nodes |-> nodes, rows |-> rows, columns |-> columns, size |-> size,
     asserted |-> FALSE]

\* a plain return in place of the assertion
AssertRecoverReturn_Silent(nodes, rows, columns, size) ==
    [nodes |-> nodes, rows |-> rows, columns |-> columns, size |-> size,
     asserted |-> FALSE]

\* KIS_SAFE_ASSERT_RECOVER_RETURN with a false condition: the failure is
\* reported and the function returns
AssertRecoverReturn(nodes, rows, columns, size) ==
    [nodes |-> nodes, rows |-> rows, columns |-> columns, size |-> size,
     asserted |-> TRUE]

\* if (qFuzzyCompare(t, 0.0) || qFuzzyCompare(t, 1.0)) return;
SubdivideNoOp(t) == qFuzzyCompare(t, Exact(Zero)) \/ qFuzzyCompare(t, Exact(One))

\* the condition of KIS_SAFE_ASSERT_RECOVER_RETURN(t > 0.0 && t < 1.0)
SubdivideInRange(t) == RealLt(Exact(Zero), t) /\ RealLt(t, Exact(One))

\* the loop moving dstIt by m_size.width() only
RECURSIVE InsertColumn_OldStride(_, _, _, _, _)
InsertColumn_OldStride(nodes, newColumn, k, dst, w) ==
    IF k > Len(newColumn) THEN nodes
    ELSE InsertColumn_OldStride(InsertAt(nodes, dst + 1, newColumn[k]),
                                newColumn, k + 1, dst + w, w)

\* the loop of subdivideColumn that inserts newColumn[k] at dstIt and then
\* moves dstIt by m_size.width() + 1 (dst is the 0-based offset of dstIt)
RECURSIVE InsertColumn(_, _, _, _, _)
InsertColumn(nodes, newColumn, k, dst, w) ==
    IF k > Len(newColumn) THEN nodes
    ELSE InsertColumn(InsertAt(nodes, dst + 1, newColumn[k]),
                      newColumn, k + 1, dst + w + 1, w)

\* the curves split at t itself, not at t relative to the bracket
subdivideRowBody_AbsoluteT(nodes, rows, columns, size, t) ==
    Bind(PrevUpperBound(rows, t.r), LAMBDA i :
    Bind(t.r, LAMBDA relT :
    Bind([col \in 0..(size.w - 1) |->
             splitCurveVertically(node(nodes, size.w, col, i - 1),
                                  node(nodes, size.w, col, i),
                                  relT)], LAMBDA split :
    LET topRow == i - 1
        bottomRow == topRow + 1
        newRow == [c \in 1..size.w |-> split[c - 1][3]]
        nodes1 == [k \in 1..Len(nodes) |->
                    LET col == (k - 1) % size.w
                        row == (k - 1) \div size.w
                    IN  IF row = topRow THEN split[col][1]
                        ELSE IF row = bottomRow THEN split[col][2]
                        ELSE nodes[k]]
    IN  [nodes |-> InsertRange(nodes1, bottomRow * size.w + 1, newRow),
         rows |-> InsertAt(rows, i + 1, t.r),
         columns |-> columns,
         size |-> [size EXCEPT !.h = @ + 1],
         asserted |-> FALSE])))

\* subdivideRow behind its early return and its assertion
subdivideRowBody(nodes, rows, columns, size, t) ==
    Bind(PrevUpperBound(rows, t.r), LAMBDA i :     \* 1-based position of it
    Bind(RDiv(RSub(t.r, rows[i]), RSub(rows[i + 1], rows[i])), LAMBDA relT :
    Bind([col \in 0..(size.w - 1) |->
             splitCurveVertically(node(nodes, size.w, col, i - 1),
                                  node(nodes, size.w, col, i),
                                  relT)], LAMBDA split :
    LET topRow == i - 1
        bottomRow == topRow + 1
        newRow == [c \in 1..size.w |-> split[c - 1][3]]
        nodes1 == [k \in 1..Len(nodes) |->
                    LET col == (k - 1) % size.w
                        row == (k - 1) \div size.w
                    IN  IF row = topRow THEN split[col][1]
                        ELSE IF row = bottomRow THEN split[col][2]
                        ELSE nodes[k]]
    IN  [nodes |-> InsertRange(nodes1, bottomRow * size.w + 1, newRow),
         rows |-> InsertAt(rows, i + 1, t.r),
         columns |-> columns,
         size |-> [size EXCEPT !.h = @ + 1],
         asserted |-> FALSE])))

\* the assertion placed in front of the early return
subdivideRow_AssertFirst(nodes, rows, columns, size, t) ==
    IF ~SubdivideInRange(t) THEN AssertRecoverReturn(nodes, rows, columns, size)
    ELSE IF SubdivideNoOp(t) THEN Return(nodes, rows, columns, size)
    ELSE subdivideRowBody(nodes, rows, columns, size, t)

subdivideRow(nodes, rows, columns, size, t) ==
    IF SubdivideNoOp(t) THEN Return(nodes, rows, columns, size)
    ELSE IF ~SubdivideInRange(t) THEN AssertRecoverReturn(nodes, rows, columns, size)
    ELSE subdivideRowBody(nodes, rows, columns, size, t)

\* subdivideColumn behind its early return and its assertion
subdivideColumnBody(nodes, rows, columns, size, t) ==
    Bind(PrevUpperBound(columns, t.r), LAMBDA i :  \* 1-based position of it
    Bind(RDiv(RSub(t.r, columns[i]), RSub(columns[i + 1], columns[i])), LAMBDA relT :
    Bind([row \in 0..(size.h - 1) |->
             splitCurveHorizontally(node(nodes, size.w, i - 1, row),
                                    node(nodes, size.w, i, row),
                                    relT)], LAMBDA split :
    LET leftColumn == i - 1
        rightColumn == leftColumn + 1
        newColumn == [r \in 1..size.h |-> split[r - 1][3]]
        nodes1 == [k \in 1..Len(nodes) |->
                    LET col == (k - 1) % size.w
                        row == (k - 1) \div size.w
                    IN  IF col = leftColumn THEN split[row][1]
                        ELSE IF col = rightColumn THEN split[row][2]
                        ELSE nodes[k]]
    IN  [nodes |-> InsertColumn(nodes1, newColumn, 1, rightColumn, size.w),
         rows |-> rows,
         columns |-> InsertAt(columns, i + 1, t.r),
         size |-> [size EXCEPT !.w = @ + 1],
         asserted |-> FALSE])))

subdivideColumn(nodes, rows, columns, size, t) ==
    IF SubdivideNoOp(t) THEN Return(nodes, rows, columns, size)
    ELSE IF ~SubdivideInRange(t) THEN AssertRecoverReturn(nodes, rows, columns, size)
    ELSE subdivideColumnBody(nodes, rows, columns, size, t)

Call(op, t, n, failed) == [op |-> op, t |-> t, n |-> n, asserted |-> failed]

(***************************************************************************)
(* BezierMesh::iterator: [col |-> m_col, row |-> m_row]; m_mesh is the one *)
(* mesh of the model.                                                      *)
(***************************************************************************)
\* BezierMesh::begin() and BezierMesh::end()
begin == [col |-> 0, row |-> 0]
end(size) == [col |-> 0, row |-> size.h - 1]

\* int division and remainder of C++ (truncation towards zero)
CDiv(a, b) == IF a >= 0 THEN a \div b ELSE -((-a) \div b)
CMod(a, b) == a - b * CDiv(a, b)

\* the wrap test comparing against the number of nodes of a row
increment_WrapAtWidth(i, size) ==
    IF i.col + 1 >= size.w
    THEN [col |-> 0, row |-> i.row + 1]
    ELSE [col |-> i.col + 1, row |-> i.row]

increment(i, size) ==
    IF i.col + 1 >= size.w - 1
    THEN [col |-> 0, row |-> i.row + 1]
    ELSE [col |-> i.col + 1, row |-> i.row]

decrement(i, size) ==
    IF i.col - 1 < 0
    THEN [col |-> size.w - 2, row |-> i.row - 1]
    ELSE [col |-> i.col - 1, row |-> i.row]

\* advance(n): the iterator after the call and whether
\* KIS_SAFE_ASSERT_RECOVER_NOOP(m_row < m_mesh->m_size.height() - 1) failed
advance(i, size, n) ==
    LET index == i.row * (size.w - 1) + i.col + n
        row == CDiv(index, size.w - 1)
        col == CMod(index, size.w - 1)
    IN  [it |-> [col |-> col, row |-> row],
         asserted |-> ~(row < size.h - 1)]

\* distance_to(z) called on iterator i
distance_to(i, z, size) ==
    LET index == i.row * (size.w - 1) + i.col
        otherIndex == z.row * (size.w - 1) + z.col
    IN  otherIndex - index

\* what the callers of the iterator rely on: its linear position and the
\* number of patches of the mesh
LinearIndex(i, size) == i.row * (size.w - 1) + i.col
NumPatches(size) == (size.w - 1) * (size.h - 1)

(***************************************************************************)
(* KisAlgebra2D and kisDistance.  norm and kisDistance are square roots;   *)
(* the model keeps the squared length and compares squares.                *)
(***************************************************************************)
\* KisAlgebra2D::crossProduct(a, b)
crossProduct(a, b) == RSub(RMul(a[1], b[2]), RMul(a[2], b[1]))

\* KisAlgebra2D::norm(a), squared
normSq(a) == RAdd(RMul(a[1], a[1]), RMul(a[2], a[2]))

\* kisDistance(a, b), squared
kisDistanceSq(a, b) == normSq(PSub(a, b))

\* KisAlgebra2D::relativeToAbsolute(pt, rc)
relativeToAbsolute(pt, rc) ==
    Pt(RAdd(rc.x, RMul(pt[1], rc.w)), RAdd(rc.y, RMul(pt[2], rc.h)))

\* KisAlgebra2D::relativeToAbsolute(rel, rc) for rectangles:
\* QRectF(relativeToAbsolute(rel.topLeft(), rc), relativeToAbsolute(rel.bottomRight(), rc))
relativeToAbsoluteRect(rel, rc) ==
    LET topLeft == relativeToAbsolute(Pt(rel.x, rel.y), rc)
        bottomRight == relativeToAbsolute(Pt(RAdd(rel.x, rel.w), RAdd(rel.y, rel.h)), rc)
    IN  [x |-> topLeft[1], y |-> topLeft[2],
         w |-> RSub(bottomRight[1], topLeft[1]),
         h |-> RSub(bottomRight[2], topLeft[2])]

\* qCeil of a rational
qCeil(a) == -((-a[1]) \div a[2])

(***************************************************************************)
(* struct BezierPatch: [originalRect |-> [x, y, w, h], points |-> [TL |-> *)
(* ..., TL_HC |-> ..., ...]], the points indexed by ControlPointType.       *)
(***************************************************************************)
ControlPointType ==
    { "TL", "TL_HC", "TL_VC", "TR", "TR_HC", "TR_VC",
      "BL", "BL_HC", "BL_VC", "BR", "BR_HC", "BR_VC" }

\* a default-constructed BezierPatch
NoPatch ==
    [originalRect |-> [x |-> Zero, y |-> Zero, w |-> Zero, h |-> Zero],
     points |-> [c \in ControlPointType |-> Pt(Zero, Zero)]]

\* no call was made yet
NoRet == [op |-> "none"]

\* no call is in progress
NoFrame == [fn |-> "none"]

\* bezierCurveDeriv: the first derivative of the cubic by t
bezierCurveDeriv(p0, p1, p2, p3, t) ==
    LET t_2 == RMul(t, t)
        t_inv == RSub(One, t)
        t_inv_2 == RMul(t_inv, t_inv)
    IN  PAdd(PAdd(PScale(RMul(RInt(3), t_inv_2), PSub(p1, p0)),
                  PScale(RMul(RMul(RInt(6), t_inv), t), PSub(p2, p1))),
             PScale(RMul(RInt(3), t_2), PSub(p3, p2)))

\* dstBoundingRect(): the bounds accumulated over the 12 points
dstBoundingRect(p) ==
    LET xs == { p.points[c][1] : c \in ControlPointType }
        ys == { p.points[c][2] : c \in ControlPointType }
        left == CHOOSE a \in xs : \A b \in xs : RLe(a, b)
        right == CHOOSE a \in xs : \A b \in xs : RLe(b, a)
        top == CHOOSE a \in ys : \A b \in ys : RLe(a, b)
        bottom == CHOOSE a \in ys : \A b \in ys : RLe(b, a)
    IN  [x |-> left, y |-> top, w |-> RSub(right, left), h |-> RSub(bottom, top)]

\* offset > 1.0 for offset = normCoeff * cross and normCoeff = 1.0 / 3.0 / dist
\* with dist > 0: the same as cross > 3 * dist
OffsetAboveOne(cross, distSq) ==
    RLt(Zero, cross) /\ RLt(RMul(RInt(9), distSq), RMul(cross, cross))

\* BezierPatch::isLinearSegment.  For dist == 0 normCoeff is infinite and
\* both offsets are inf * 0 = NaN, which no comparison finds above 1.0
isLinearSegment(p0, d0, p1, d1) ==
    Bind(PSub(p1, p0), LAMBDA diff :
    Bind(normSq(diff), LAMBDA distSq :
         IF distSq = Zero THEN TRUE
         ELSE IF OffsetAboveOne(crossProduct(diff, d0), distSq) THEN FALSE
         ELSE IF OffsetAboveOne(crossProduct(diff, d1), distSq) THEN FALSE
         ELSE TRUE))

\* the step compared with 2.0 * kisDistance(p0, p3)
LessThanMinStep_Product(dt, distSq) ==
    RLt(RMul(dt, dt), RMul(RInt(4), distSq))

\* t - lastT < minStepSize for minStepSize = 2.0 / kisDistance(p0, p3); the
\* quotient by a zero distance is +infinity
LessThanMinStep(dt, distSq) ==
    IF distSq = Zero THEN TRUE
    ELSE RLt(RMul(RMul(dt, dt), distSq), RInt(4))

\* the else branch without its push
LinearizeIteration_NoPush(curve, distSq, st) ==
    Bind(st[1][Len(st[1])], LAMBDA top :
         IF \/ LessThanMinStep(RSub(top[3], st[2][3]), distSq)
            \/ isLinearSegment(st[2][1], st[2][2], top[1], top[2])
         THEN <<SubSeq(st[1], 1, Len(st[1]) - 1), top, Append(st[3], top[3])>>
         ELSE st)

\* one pass of the while loop of linearizeCurve, on a stack that is not
\* empty.  st = <<stackedPoints, last, steps>>: the stack (its top is the
\* last element) of <<p, d, t>>, the tuple <<lastP, lastD, lastT>> and the
\* steps written so far
LinearizeIteration(curve, distSq, st) ==
    Bind(st[1][Len(st[1])], LAMBDA top :
         IF \/ LessThanMinStep(RSub(top[3], st[2][3]), distSq)
            \/ isLinearSegment(st[2][1], st[2][2], top[1], top[2])
         THEN <<SubSeq(st[1], 1, Len(st[1]) - 1), top, Append(st[3], top[3])>>
         ELSE Bind(RMul(R(1, 2), RAdd(st[2][3], top[3])), LAMBDA t :
                   <<Append(st[1],
                            <<bezierCurve(curve[1], curve[2], curve[3], curve[4], t),
                              bezierCurveDeriv(curve[1], curve[2], curve[3], curve[4], t),
                              t>>),
                     st[2], st[3]>>))

\* the locals of linearizeCurve before the first pass of its loop
LinearizeStart(p0, p1, p2, p3) ==
    << <<<<p3, PScale(RInt(3), PSub(p3, p2)), One>>>>,
       <<p0, PScale(RInt(3), PSub(p1, p0)), Zero>>,
       <<Zero>> >>

\* the while loop of linearizeCurve, run until the stack is empty
RECURSIVE LinearizeLoop(_, _, _)
LinearizeLoop(curve, distSq, st) ==
    IF st[1] = <<>> THEN st[3]
    ELSE Bind(LinearizeIteration(curve, distSq, st),
              LAMBDA s : LinearizeLoop(curve, distSq, s))

\* BezierPatch::linearizeCurve: the steps, and whether 2.0 was divided by a
\* zero distance
linearizeCurve(p0, p1, p2, p3) ==
    Bind(kisDistanceSq(p0, p3), LAMBDA distSq :
         [steps |-> LinearizeLoop(<<p0, p1, p2, p3>>, distSq,
                                  LinearizeStart(p0, p1, p2, p3)),
          divByZero |-> distSq = Zero])

\* std::merge of the sorted ranges a[i..] and b[j..]: an element of b goes
\* first only when it is less than the element of a
RECURSIVE Merge(_, _, _, _)
Merge(a, b, i, j) ==
    IF i > Len(a) THEN SubSeq(b, j, Len(b))
    ELSE IF j > Len(b) THEN SubSeq(a, i, Len(a))
    ELSE IF RealLt(b[j], a[i]) THEN <<b[j]>> \o Merge(a, b, i, j + 1)
    ELSE <<a[i]>> \o Merge(a, b, i + 1, j)

\* seq[i] compared with its neighbour seq[i - 1] in place of the last
\* element kept
RECURSIVE Unique_CompareNeighbour(_, _, _)
Unique_CompareNeighbour(seq, i, kept) ==
    IF i > Len(seq) THEN kept
    ELSE IF qFuzzyCompare(seq[i - 1], seq[i])
         THEN Unique_CompareNeighbour(seq, i + 1, kept)
    ELSE Bind(Append(kept, seq[i]), LAMBDA k : Unique_CompareNeighbour(seq, i + 1, k))

\* std::unique with the predicate qFuzzyCompare, followed by erase: seq[i]
\* is dropped when it compares equal to the last element kept
RECURSIVE Unique(_, _, _)
Unique(seq, i, kept) ==
    IF i > Len(seq) THEN kept
    ELSE IF qFuzzyCompare(kept[Len(kept)], seq[i]) THEN Unique(seq, i + 1, kept)
    ELSE Bind(Append(kept, seq[i]), LAMBDA k : Unique(seq, i + 1, k))

\* BezierPatch::mergeSteps
mergeSteps(a, b) ==
    Bind(Merge(a, b, 1, 1), LAMBDA result :
         IF result = <<>> THEN result ELSE Unique(result, 2, <<result[1]>>))

\* the steps of linearizeCurve as the qreal arguments of mergeSteps, and back
ExactSteps(steps) == [i \in 1..Len(steps) |-> Exact(steps[i])]
StepValues(steps) == [i \in 1..Len(steps) |-> steps[i].r]

\* the ruled surface Sc alone in place of Sc + Sd - Sb
CoonsPoint_RuledOnly(P, xProportion, yProportion) ==
    lerp(bezierCurve(P.TL, P.TL_HC, P.TR_HC, P.TR, xProportion),
         bezierCurve(P.BL, P.BL_HC, P.BR_HC, P.BR, xProportion),
         yProportion)

\* transf = Sc + Sd - Sb of both sampling functions
CoonsPoint(P, xProportion, yProportion) ==
    LET Sc == lerp(bezierCurve(P.TL, P.TL_HC, P.TR_HC, P.TR, xProportion),
                   bezierCurve(P.BL, P.BL_HC, P.BR_HC, P.BR, xProportion),
                   yProportion)
        Sd == lerp(bezierCurve(P.TL, P.TL_VC, P.BL_VC, P.BL, yProportion),
                   bezierCurve(P.TR, P.TR_VC, P.BR_VC, P.BR, yProportion),
                   xProportion)
        Sb == lerp(lerp(P.TL, P.TR, xProportion),
                   lerp(P.BL, P.BR, xProportion),
                   yProportion)
    IN  PSub(PAdd(Sc, Sd), Sb)

\* the two loops over y and x of both sampling functions; proportions[k] is
\* the pair (xProportion, yProportion) of the k-th point appended
SampleGrid(p, xProportions, yProportions) ==
    LET w == Len(xProportions)
        h == Len(yProportions)
    IN  [gridSize |-> [w |-> w, h |-> h],
         proportions |-> [k \in 1..(w * h) |->
                            Pt(xProportions[((k - 1) % w) + 1],
                               yProportions[((k - 1) \div w) + 1])],
         origPoints |-> [k \in 1..(w * h) |->
                            relativeToAbsolute(
                                Pt(xProportions[((k - 1) % w) + 1],
                                   yProportions[((k - 1) \div w) + 1]),
                                p.originalRect)],
         transfPoints |-> [k \in 1..(w * h) |->
                            CoonsPoint(p.points,
                                       xProportions[((k - 1) % w) + 1],
                                       yProportions[((k - 1) \div w) + 1])]]

\* BezierPatch::sampleIrregularGrid
sampleIrregularGrid(p) ==
    LET P == p.points
    IN  Bind(StepValues(mergeSteps(
                 ExactSteps(linearizeCurve(P.TL, P.TL_HC, P.TR_HC, P.TR).steps),
                 ExactSteps(linearizeCurve(P.BL, P.BL_HC, P.BR_HC, P.BR).steps))),
             LAMBDA horizontalSteps :
        Bind(StepValues(mergeSteps(
                 ExactSteps(linearizeCurve(P.TL, P.TL_VC, P.BL_VC, P.BL).steps),
                 ExactSteps(linearizeCurve(P.TR, P.TR_VC, P.BR_VC, P.BR).steps))),
             LAMBDA verticalSteps :
             SampleGrid(p, horizontalSteps, verticalSteps)))

\* BezierPatch::sampleRegularGrid, for a grid of at least 2 x 2 points
sampleRegularGrid(p, dstStep) ==
    Bind(dstBoundingRect(p), LAMBDA bounds :
    Bind([w |-> qCeil(RDiv(bounds.w, dstStep[1])),
          h |-> qCeil(RDiv(bounds.h, dstStep[2]))], LAMBDA gridSize :
         SampleGrid(p,
                    [x \in 1..gridSize.w |-> R(x - 1, gridSize.w - 1)],
                    [y \in 1..gridSize.h |-> R(y - 1, gridSize.h - 1)])))

\* m_nodes[row * m_size.width() + col] reads inside the storage of m_nodes
NodeInStorage(nodes, w, col, row) == NodeIndex(col, row, w) \in 1..Len(nodes)

\* every read of makePatch(col, row) is inside the storage it reads from
PatchInStorage(nodes, rows, columns, size, col, row) ==
    /\ NodeInStorage(nodes, size.w, col, row)
    /\ NodeInStorage(nodes, size.w, col + 1, row)
    /\ NodeInStorage(nodes, size.w, col, row + 1)
    /\ NodeInStorage(nodes, size.w, col + 1, row + 1)
    /\ col + 1 \in 1..Len(columns) /\ col + 2 \in 1..Len(columns)
    /\ row + 1 \in 1..Len(rows) /\ row + 2 \in 1..Len(rows)

\* makePatch with the vertical controls of the right corners read from the
\* far side of their nodes
makePatch_RightFarControls(nodes, rows, columns, size, rect, col, row) ==
    LET tl == node(nodes, size.w, col, row)
        tr == node(nodes, size.w, col + 1, row)
        bl == node(nodes, size.w, col, row + 1)
        br == node(nodes, size.w, col + 1, row + 1)
        relRect == [x |-> columns[col + 1],
                    y |-> rows[row + 1],
                    w |-> RSub(columns[col + 2], columns[col + 1]),
                    h |-> RSub(rows[row + 2], rows[row + 1])]
    IN  [originalRect |-> relativeToAbsoluteRect(relRect, rect),
         points |-> [TL |-> tl.node, TL_HC |-> tl.rightControl,
                     TL_VC |-> tl.bottomControl,
                     TR |-> tr.node, TR_HC |-> tr.leftControl,
                     TR_VC |-> tr.topControl,
                     BL |-> bl.node, BL_HC |-> bl.rightControl,
                     BL_VC |-> bl.topControl,
                     BR |-> br.node, BR_HC |-> br.leftControl,
                     BR_VC |-> br.bottomControl]]

\* makePatch with the right and bottom positions taken as width and height
makePatch_SizeFromPosition(nodes, rows, columns, size, rect, col, row) ==
    LET tl == node(nodes, size.w, col, row)
        tr == node(nodes, size.w, col + 1, row)
        bl == node(nodes, size.w, col, row + 1)
        br == node(nodes, size.w, col + 1, row + 1)
        relRect == [x |-> columns[col + 1],
                    y |-> rows[row + 1],
                    w |-> columns[col + 2],
                    h |-> rows[row + 2]]
    IN  [originalRect |-> relativeToAbsoluteRect(relRect, rect),
         points |-> [TL |-> tl.node, TL_HC |-> tl.rightControl,
                     TL_VC |-> tl.bottomControl,
                     TR |-> tr.node, TR_HC |-> tr.leftControl,
                     TR_VC |-> tr.bottomControl,
                     BL |-> bl.node, BL_HC |-> bl.rightControl,
                     BL_VC |-> bl.topControl,
                     BR |-> br.node, BR_HC |-> br.leftControl,
                     BR_VC |-> br.topControl]]

\* BezierMesh::makePatch(col, row), all of whose reads are inside the storage
makePatch(nodes, rows, columns, size, rect, col, row) ==
    LET tl == node(nodes, size.w, col, row)
        tr == node(nodes, size.w, col + 1, row)
        bl == node(nodes, size.w, col, row + 1)
        br == node(nodes, size.w, col + 1, row + 1)
        relRect == [x |-> columns[col + 1],
                    y |-> rows[row + 1],
                    w |-> RSub(columns[col + 2], columns[col + 1]),
                    h |-> RSub(rows[row + 2], rows[row + 1])]
    IN  [originalRect |-> relativeToAbsoluteRect(relRect, rect),
         points |-> [TL |-> tl.node, TL_HC |-> tl.rightControl,
                     TL_VC |-> tl.bottomControl,
                     TR |-> tr.node, TR_HC |-> tr.leftControl,
                     TR_VC |-> tr.bottomControl,
                     BL |-> bl.node, BL_HC |-> bl.rightControl,
                     BL_VC |-> bl.topControl,
                     BR |-> br.node, BR_HC |-> br.leftControl,
                     BR_VC |-> br.topControl]]

(***************************************************************************)
(* The inverse mapping: struct Params2D, meshForwardMapping and its        *)
(* derivatives, the gradient callback and calculateLocalPos.  The          *)
(* minimiser is the library's: one call of its iteration either reports an *)
(* error and leaves its iterate s->x alone, or moves s->x.                 *)
(***************************************************************************)
pow2(x) == RMul(x, x)
pow3(x) == RMul(RMul(x, x), x)

\* c1*P1 + c2*P2 + ... for terms = << <<c1, P1>>, <<c2, P2>>, ... >>
RECURSIVE PComb(_)
PComb(terms) ==
    IF terms = <<>> THEN Pt(Zero, Zero)
    ELSE PAdd(PScale(RInt(terms[1][1]), terms[1][2]), PComb(Tail(terms)))

\* the sum of a sequence of points
RECURSIVE PSum(_)
PSum(pts) == IF pts = <<>> THEN Pt(Zero, Zero) ELSE PAdd(pts[1], PSum(Tail(pts)))

\* the right curve taken for s where calculateLocalPos takes the bottom one
Params2D_SwappedCurves(pt, dstPoint) ==
    LET P == pt.points
    IN  [p0 |-> P.TL, p1 |-> P.TL_HC, p2 |-> P.TR_HC, p3 |-> P.TR,
         q0 |-> P.TR, q1 |-> P.TR_VC, q2 |-> P.BR_VC, q3 |-> P.BR,
         r0 |-> P.TL, r1 |-> P.TL_VC, r2 |-> P.BL_VC, r3 |-> P.BL,
         s0 |-> P.BL, s1 |-> P.BL_HC, s2 |-> P.BR_HC, s3 |-> P.BR,
         dstPoint |-> dstPoint]

\* Params2D p as calculateLocalPos fills it from the patch
Params2D(pt, dstPoint) ==
    LET P == pt.points
    IN  [p0 |-> P.TL, p1 |-> P.TL_HC, p2 |-> P.TR_HC, p3 |-> P.TR,
         q0 |-> P.BL, q1 |-> P.BL_HC, q2 |-> P.BR_HC, q3 |-> P.BR,
         r0 |-> P.TL, r1 |-> P.TL_VC, r2 |-> P.BL_VC, r3 |-> P.BL,
         s0 |-> P.TR, s1 |-> P.TR_VC, s2 |-> P.BR_VC, s3 |-> P.BR,
         dstPoint |-> dstPoint]

meshForwardMapping(u, v, p) ==
    PSum(<< p.r0,
            PScale(RMul(pow3(u), v),
                   PComb(<< <<1, p.p0>>, <<-3, p.p1>>, <<3, p.p2>>, <<-1, p.p3>>,
                            <<-1, p.q0>>, <<3, p.q1>>, <<-3, p.q2>>, <<1, p.q3>> >>)),
            PScale(pow3(u),
                   PComb(<< <<-1, p.p0>>, <<3, p.p1>>, <<-3, p.p2>>, <<1, p.p3>> >>)),
            PScale(RMul(pow2(u), v),
                   PComb(<< <<-3, p.p0>>, <<6, p.p1>>, <<-3, p.p2>>,
                            <<3, p.q0>>, <<-6, p.q1>>, <<3, p.q2>> >>)),
            PScale(pow2(u),
                   PComb(<< <<3, p.p0>>, <<-6, p.p1>>, <<3, p.p2>> >>)),
            PScale(RMul(u, pow3(v)),
                   PComb(<< <<1, p.r0>>, <<-3, p.r1>>, <<3, p.r2>>, <<-1, p.r3>>,
                            <<-1, p.s0>>, <<3, p.s1>>, <<-3, p.s2>>, <<1, p.s3>> >>)),
            PScale(RMul(u, pow2(v)),
                   PComb(<< <<-3, p.r0>>, <<6, p.r1>>, <<-3, p.r2>>,
                            <<3, p.s0>>, <<-6, p.s1>>, <<3, p.s2>> >>)),
            PScale(RMul(u, v),
                   PComb(<< <<2, p.p0>>, <<-3, p.p1>>, <<1, p.p3>>,
                            <<-2, p.q0>>, <<3, p.q1>>, <<-1, p.q3>>,
                            <<3, p.r0>>, <<-3, p.r1>>, <<-3, p.s0>>, <<3, p.s1>> >>)),
            PScale(u,
                   PComb(<< <<-2, p.p0>>, <<3, p.p1>>, <<-1, p.p3>>,
                            <<-1, p.r0>>, <<1, p.s0>> >>)),
            PScale(pow3(v),
                   PComb(<< <<-1, p.r0>>, <<3, p.r1>>, <<-3, p.r2>>, <<1, p.r3>> >>)),
            PScale(pow2(v),
                   PComb(<< <<3, p.r0>>, <<-6, p.r1>>, <<3, p.r2>> >>)),
            PScale(v,
                   PComb(<< <<-3, p.r0>>, <<3, p.r1>> >>)) >>)

meshForwardMappingDiffU(u, v, p) ==
    PSum(<< PComb(<< <<-2, p.p0>>, <<3, p.p1>>, <<-1, p.p3>>,
                     <<-1, p.r0>>, <<1, p.s0>> >>),
            PScale(RMul(pow2(u), v),
                   PComb(<< <<3, p.p0>>, <<-9, p.p1>>, <<9, p.p2>>, <<-3, p.p3>>,
                            <<-3, p.q0>>, <<9, p.q1>>, <<-9, p.q2>>, <<3, p.q3>> >>)),
            PScale(pow2(u),
                   PComb(<< <<-3, p.p0>>, <<9, p.p1>>, <<-9, p.p2>>, <<3, p.p3>> >>)),
            PScale(RMul(u, v),
                   PComb(<< <<-6, p.p0>>, <<12, p.p1>>, <<-6, p.p2>>,
                            <<6, p.q0>>, <<-12, p.q1>>, <<6, p.q2>> >>)),
            PScale(u,
                   PComb(<< <<6, p.p0>>, <<-12, p.p1>>, <<6, p.p2>> >>)),
            PScale(pow3(v),
                   PComb(<< <<1, p.r0>>, <<-3, p.r1>>, <<3, p.r2>>, <<-1, p.r3>>,
                            <<-1, p.s0>>, <<3, p.s1>>, <<-3, p.s2>>, <<1, p.s3>> >>)),
            PScale(pow2(v),
                   PComb(<< <<-3, p.r0>>, <<6, p.r1>>, <<-3, p.r2>>,
                            <<3, p.s0>>, <<-6, p.s1>>, <<3, p.s2>> >>)),
            PScale(v,
                   PComb(<< <<2, p.p0>>, <<-3, p.p1>>, <<1, p.p3>>,
                            <<-2, p.q0>>, <<3, p.q1>>, <<-1, p.q3>>,
                            <<3, p.r0>>, <<-3, p.r1>>, <<-3, p.s0>>, <<3, p.s1>> >>)) >>)

meshForwardMappingDiffV(u, v, p) ==
    PSum(<< PComb(<< <<-3, p.r0>>, <<3, p.r1>> >>),
            PScale(pow3(u),
                   PComb(<< <<1, p.p0>>, <<-3, p.p1>>, <<3, p.p2>>, <<-1, p.p3>>,
                            <<-1, p.q0>>, <<3, p.q1>>, <<-3, p.q2>>, <<1, p.q3>> >>)),
            PScale(pow2(u),
                   PComb(<< <<-3, p.p0>>, <<6, p.p1>>, <<-3, p.p2>>,
                            <<3, p.q0>>, <<-6, p.q1>>, <<3, p.q2>> >>)),
            PScale(RMul(u, pow2(v)),
                   PComb(<< <<3, p.r0>>, <<-9, p.r1>>, <<9, p.r2>>, <<-3, p.r3>>,
                            <<-3, p.s0>>, <<9, p.s1>>, <<-9, p.s2>>, <<3, p.s3>> >>)),
            PScale(RMul(u, v),
                   PComb(<< <<-6, p.r0>>, <<12, p.r1>>, <<-6, p.r2>>,
                            <<6, p.s0>>, <<-12, p.s1>>, <<6, p.s2>> >>)),
            PScale(u,
                   PComb(<< <<2, p.p0>>, <<-3, p.p1>>, <<1, p.p3>>,
                            <<-2, p.q0>>, <<3, p.q1>>, <<-1, p.q3>>,
                            <<3, p.r0>>, <<-3, p.r1>>, <<-3, p.s0>>, <<3, p.s1>> >>)),
            PScale(pow2(v),
                   PComb(<< <<-3, p.r0>>, <<9, p.r1>>, <<-9, p.r2>>, <<3, p.r3>> >>)),
            PScale(v,
                   PComb(<< <<6, p.r0>>, <<-12, p.r1>>, <<6, p.r2>> >>)) >>)

\* my_df: the gradient <<df[0], df[1]>> of the squared distance at x
my_df(x, p) ==
    Bind(meshForwardMapping(x[1], x[2], p), LAMBDA S :
    Bind(meshForwardMappingDiffU(x[1], x[2], p), LAMBDA dU :
    Bind(meshForwardMappingDiffV(x[1], x[2], p), LAMBDA dV :
         << RAdd(RMul(RMul(RInt(2), RSub(S[1], p.dstPoint[1])), dU[1]),
                 RMul(RMul(RInt(2), RSub(S[2], p.dstPoint[2])), dU[2])),
            RAdd(RMul(RMul(RInt(2), RSub(S[1], p.dstPoint[1])), dV[1]),
                 RMul(RMul(RInt(2), RSub(S[2], p.dstPoint[2])), dV[2])) >>)))

\* the tolerance 1e-4 of the gradient test is 1 / GradientTolInv
GradientTolInv == 10000

\* gsl_multimin_test_gradient(s->gradient, 1e-4): the norm of the gradient
\* is below the tolerance; n/d < 10^-8 is decided on the quotient d / n
gsl_multimin_test_gradient(g) ==
    Bind(normSq(g), LAMBDA sq :
         IF sq = Zero THEN "GSL_SUCCESS"
         ELSE LET quot == sq[2] \div sq[1]
                  tolSqInv == GradientTolInv * GradientTolInv
              IN  IF quot > tolSqInv \/ (quot = tolSqInv /\ sq[2] % sq[1] > 0)
                  THEN "GSL_SUCCESS"
                  ELSE "GSL_CONTINUE")

\* the iteration budget of the loop of calculateLocalPos
IterationBudget == 10000

\* the loop going on whatever iter is
LoopContinues_NoBudget(status, iter) == status = "GSL_CONTINUE"

\* while (status == GSL_CONTINUE && iter < 10000)
LoopContinues(status, iter) == status = "GSL_CONTINUE" /\ iter < IterationBudget

\* the minimiser s with its iterate at x: gsl_multimin_fdfminimizer_set and
\* every successful iteration leave in s->gradient what the callbacks
\* my_fdf / my_df give at s->x
Minimizer(x, p) == [x |-> x, gradient |-> my_df(x, p)]

\* calculateLocalPos up to its loop: x and s are allocated, s->x is the
\* starting point, and the default-constructed result (0, 0) has had its x
\* written twice, with s->x[0] and then with s->x[1].  moves holds the
\* states the minimiser can step to during this call
calculateLocalPosStart(pt, dstPoint, iterates) ==
    Bind(Params2D(pt, dstPoint), LAMBDA p :
    Bind(Minimizer(Pt(R(1, 2), R(1, 2)), p), LAMBDA s :
         [fn |-> "calculateLocalPos", pc |-> "loop",
          p |-> p, s |-> s,
          moves |-> { Minimizer(c, p) : c \in iterates },
          iter |-> 0, status |-> "unset",
          result |-> Pt(s.x[2], Zero),
          allocated |-> {"x", "s"}]))

\* what one call of gsl_multimin_fdfminimizer_iterate can report: an error
\* that leaves s alone, or a step of s to one of moves
IterateOutcomes(s, moves) ==
    { [status |-> "GSL_ENOPROG", s |-> s] }
        \cup { [status |-> "GSL_SUCCESS", s |-> m] : m \in moves }

\* one pass of the do-while loop, the library's iteration reporting outcome
calculateLocalPosPass(fr, outcome) ==
    LET iter == fr.iter + 1
    IN  IF outcome.status # "GSL_SUCCESS"
        THEN [fr EXCEPT !.iter = iter, !.status = outcome.status, !.pc = "exit"]
        ELSE Bind(gsl_multimin_test_gradient(outcome.s.gradient), LAMBDA status :
                  [fr EXCEPT !.iter = iter, !.s = outcome.s, !.status = status,
                             !.result = outcome.s.x,
                             !.pc = IF LoopContinues(status, iter)
                                    THEN "loop" ELSE "exit"])

Init ==
    /\ \E mapRect \in InitRects : \E size \in InitSizes : Construct(mapRect, size)
    /\ it = begin
    /\ lastCall = Call("construct", Exact(Zero), 0, FALSE)
    /\ patch = NoPatch
    /\ ret = NoRet
    /\ frame = NoFrame

\* the construction of the smallest mesh, for the calls the mesh plays no
\* part in
InitSmallest == Init /\ m_size = [w |-> 2, h |-> 2]

SubdivideRow(t) ==
    /\ m_size.h < MaxDim
    /\ \E res \in {subdivideRow(m_nodes, m_rows, m_columns, m_size, t)} :
           /\ m_nodes' = res.nodes
           /\ m_rows' = res.rows
           /\ m_columns' = res.columns
           /\ m_size' = res.size
           /\ lastCall' = Call("subdivideRow", t, 0, res.asserted)
    /\ UNCHANGED <<m_originalRect, it, patch, ret, frame>>

SubdivideColumn(t) ==
    /\ m_size.w < MaxDim
    /\ \E res \in {subdivideColumn(m_nodes, m_rows, m_columns, m_size, t)} :
           /\ m_nodes' = res.nodes
           /\ m_rows' = res.rows
           /\ m_columns' = res.columns
           /\ m_size' = res.size
           /\ lastCall' = Call("subdivideColumn", t, 0, res.asserted)
    /\ UNCHANGED <<m_originalRect, it, patch, ret, frame>>

\* it = mesh.begin()
ItBegin ==
    /\ it' = begin
    /\ lastCall' = Call("begin", Exact(Zero), 0, FALSE)
    /\ UNCHANGED <<mesh, patch, ret, frame>>

\* it = mesh.end()
ItEnd ==
    /\ it' = end(m_size)
    /\ lastCall' = Call("end", Exact(Zero), 0, FALSE)
    /\ UNCHANGED <<mesh, patch, ret, frame>>

\* ++it, for an iterator before end()
ItIncrement ==
    /\ LinearIndex(it, m_size) < NumPatches(m_size)
    /\ it' = increment(it, m_size)
    /\ lastCall' = Call("increment", Exact(Zero), 0, FALSE)
    /\ UNCHANGED <<mesh, patch, ret, frame>>

\* --it, for an iterator after begin()
ItDecrement ==
    /\ LinearIndex(it, m_size) > 0
    /\ it' = decrement(it, m_size)
    /\ lastCall' = Call("decrement", Exact(Zero), 0, FALSE)
    /\ UNCHANGED <<mesh, patch, ret, frame>>

\* it += n, for a target within [begin(), end()]
ItAdvance(n) ==
    /\ LinearIndex(it, m_size) + n \in 0..NumPatches(m_size)
    /\ \E res \in {advance(it, m_size, n)} :
           /\ it' = res.it
           /\ lastCall' = Call("advance", Exact(Zero), n, res.asserted)
    /\ UNCHANGED <<mesh, patch, ret, frame>>

Next ==
    \/ \E t \in TValues : SubdivideRow(t)
    \/ \E t \in TValues : SubdivideColumn(t)

Spec == Init /\ [][Next]_vars

\* the subdivisions of the iterator's specification
IterTValues == { Exact(R(1, 2)) }

NextIter ==
    \/ \E t \in IterTValues : SubdivideRow(t)
    \/ \E t \in IterTValues : SubdivideColumn(t)
    \/ ItBegin
    \/ ItEnd
    \/ ItIncrement
    \/ ItDecrement
    \/ \E n \in (-MaxAdv)..MaxAdv : ItAdvance(n)

SpecIter == Init /\ [][NextIter]_vars

(***************************************************************************)
(* Calls on nodes and patches of the mesh.                                 *)
(***************************************************************************)
\* what a read outside the storage of a vector can give when it does not
\* end the program
GarbageNodes == { Node(Pt(Zero, Zero)) }
GarbagePatches == { NoPatch }

\* mesh.node(col, row): m_nodes[row * m_size.width() + col] without any test
\* of col and row; a read outside the storage is undefined
NodeAt(col, row) ==
    /\ IF NodeInStorage(m_nodes, m_size.w, col, row)
       THEN ret' = [op |-> "node", col |-> col, row |-> row,
                    outcome |-> "returned",
                    node |-> node(m_nodes, m_size.w, col, row)]
       ELSE \/ ret' = [op |-> "node", col |-> col, row |-> row,
                       outcome |-> "crashed"]
            \/ \E g \in GarbageNodes :
                   ret' = [op |-> "node", col |-> col, row |-> row,
                           outcome |-> "returned", node |-> g]
    /\ UNCHANGED <<mesh, it, lastCall, patch, frame>>

\* patch = mesh.makePatch(col, row); a read outside the storage of m_nodes,
\* m_columns or m_rows is undefined
MakePatch(col, row) ==
    /\ IF PatchInStorage(m_nodes, m_rows, m_columns, m_size, col, row)
       THEN /\ patch' = makePatch(m_nodes, m_rows, m_columns, m_size,
                                  m_originalRect, col, row)
            /\ ret' = [op |-> "makePatch", col |-> col, row |-> row,
                       outcome |-> "returned"]
       ELSE \/ /\ patch' = patch
               /\ ret' = [op |-> "makePatch", col |-> col, row |-> row,
                          outcome |-> "crashed"]
            \/ /\ patch' \in GarbagePatches
               /\ ret' = [op |-> "makePatch", col |-> col, row |-> row,
                          outcome |-> "returned"]
    /\ UNCHANGED <<mesh, it, lastCall, frame>>

\* the subdivisions and the indices of the specification of makePatch
MaxPatchDim == 3
PatchTValues == { Exact(R(1, 4)) }

NextMeshPatch ==
    \/ \E t \in PatchTValues : m_size.h < MaxPatchDim /\ SubdivideRow(t)
    \/ \E t \in PatchTValues : m_size.w < MaxPatchDim /\ SubdivideColumn(t)
    \/ \E col \in (-1)..m_size.w : \E row \in (-1)..m_size.h : NodeAt(col, row)
    \/ \E col \in 0..(m_size.w - 1) : \E row \in 0..(m_size.h - 1) : MakePatch(col, row)

SpecMeshPatch == Init /\ [][NextMeshPatch]_vars

(***************************************************************************)
(* Sampling of a patch.                                                    *)
(***************************************************************************)
\* the patch of testPointsQImage and testGradient: the corners of a
\* rectangle, each with a horizontal control offset by (+-hc.x, hc.y) and a
\* vertical control offset by (+-vc.x, +-vc.y) towards the inside
TestPatch(rc, hc, vc) ==
    LET topLeft == Pt(rc.x, rc.y)
        topRight == Pt(RAdd(rc.x, rc.w), rc.y)
        bottomLeft == Pt(rc.x, RAdd(rc.y, rc.h))
        bottomRight == Pt(RAdd(rc.x, rc.w), RAdd(rc.y, rc.h))
    IN  [originalRect |-> rc,
         points |-> [TL |-> topLeft,
                     TL_HC |-> PAdd(topLeft, Pt(hc[1], hc[2])),
                     TL_VC |-> PAdd(topLeft, Pt(vc[1], vc[2])),
                     TR |-> topRight,
                     TR_HC |-> PAdd(topRight, Pt(RNeg(hc[1]), hc[2])),
                     TR_VC |-> PAdd(topRight, Pt(RNeg(vc[1]), vc[2])),
                     BL |-> bottomLeft,
                     BL_HC |-> PAdd(bottomLeft, Pt(hc[1], hc[2])),
                     BL_VC |-> PAdd(bottomLeft, Pt(vc[1], RNeg(vc[2]))),
                     BR |-> bottomRight,
                     BR_HC |-> PAdd(bottomRight, Pt(RNeg(hc[1]), hc[2])),
                     BR_VC |-> PAdd(bottomRight, Pt(RNeg(vc[1]), RNeg(vc[2])))]]

TestRects ==
    { [x |-> Zero, y |-> Zero, w |-> RInt(4), h |-> RInt(4)],
      [x |-> RInt(1), y |-> RInt(2), w |-> RInt(5), h |-> RInt(4)] }
TestHC == { Pt(RInt(1), RInt(2)), Pt(RInt(1), RInt(3)), Pt(RInt(1), RInt(-2)) }
TestVC == { Pt(RInt(-2), RInt(1)), Pt(RInt(1), RInt(1)) }
TestPatches == { TestPatch(rc, hc, vc) : rc \in TestRects, hc \in TestHC, vc \in TestVC }

\* the dstStep arguments of sampleRegularGrid
DstSteps ==
    { Pt(RInt(15), RInt(30)), Pt(RInt(10), RInt(20)), Pt(RInt(6), RInt(15)),
      Pt(RInt(6), RInt(12)), Pt(RInt(2), RInt(2)), Pt(RInt(1), RInt(1)) }

\* sampleRegularGrid is not called for a grid wider or higher than MaxGrid
MaxGrid == 5

\* BezierPatch patch; patch.originalRect = ...; patch.points[...] = ...
SetPatch(p) ==
    /\ patch' = p
    /\ ret' = [op |-> "setPatch"]
    /\ UNCHANGED <<mesh, it, lastCall, frame>>

\* patch.sampleRegularGrid(gridSize, origPoints, transfPoints, dstStep), for
\* a grid of at least 2 x 2 points
SampleRegularGrid(dstStep) ==
    /\ LET bounds == dstBoundingRect(patch)
       IN  /\ qCeil(RDiv(bounds.w, dstStep[1])) \in 2..MaxGrid
           /\ qCeil(RDiv(bounds.h, dstStep[2])) \in 2..MaxGrid
    /\ \E res \in {sampleRegularGrid(patch, dstStep)} :
           ret' = [op |-> "sampleRegularGrid", dstStep |-> dstStep,
                   gridSize |-> res.gridSize, proportions |-> res.proportions,
                   origPoints |-> res.origPoints,
                   transfPoints |-> res.transfPoints]
    /\ UNCHANGED <<mesh, it, lastCall, patch, frame>>

\* patch.sampleIrregularGrid(gridSize, origPoints, transfPoints)
SampleIrregularGrid ==
    /\ \E res \in {sampleIrregularGrid(patch)} :
           ret' = [op |-> "sampleIrregularGrid",
                   gridSize |-> res.gridSize, proportions |-> res.proportions,
                   origPoints |-> res.origPoints,
                   transfPoints |-> res.transfPoints]
    /\ UNCHANGED <<mesh, it, lastCall, patch, frame>>

NextPatch ==
    \/ \E col \in 0..(m_size.w - 2) : \E row \in 0..(m_size.h - 2) : MakePatch(col, row)
    \/ \E p \in TestPatches : SetPatch(p)
    \/ \E dstStep \in DstSteps : SampleRegularGrid(dstStep)
    \/ SampleIrregularGrid

SpecPatch == Init /\ [][NextPatch]_vars

(***************************************************************************)
(* Calls of the functions of curves.                                       *)
(***************************************************************************)
\* the control points <<p0, p1, p2, p3>> the functions are called with
Curves ==
    { <<Pt(Zero, Zero), Pt(RInt(1), RInt(2)), Pt(RInt(3), RInt(2)), Pt(RInt(4), Zero)>>,
      <<Pt(Zero, Zero), Pt(RInt(1), RInt(3)), Pt(RInt(3), RInt(3)), Pt(RInt(4), Zero)>>,
      <<Pt(Zero, Zero), Pt(RInt(1), RInt(-2)), Pt(RInt(3), RInt(-2)), Pt(RInt(4), Zero)>>,
      <<Pt(Zero, Zero), Pt(RInt(1), RInt(3)), Pt(RInt(3), RInt(-3)), Pt(RInt(4), Zero)>>,
      <<Pt(Zero, Zero), Pt(Zero, Zero), Pt(RInt(4), RInt(3)), Pt(RInt(4), RInt(3))>>,
      <<Pt(RInt(1), RInt(1)), Pt(RInt(3), RInt(3)), Pt(RInt(-1), RInt(3)), Pt(RInt(1), RInt(1))>>,
      <<Pt(RInt(1), RInt(1)), Pt(RInt(1), RInt(1)), Pt(RInt(1), RInt(1)), Pt(RInt(1), RInt(1))>> }

\* the parameters deCasteljau is called with
SplitTValues == { Zero, R(1, 4), R(1, 2), R(3, 4), One }

\* the sorted sequences mergeSteps is called with
StepSeqs ==
    { <<>>,
      <<Exact(Zero), Exact(One)>>,
      <<Exact(Zero), Exact(R(3, 10)), Exact(One)>>,
      <<Exact(Zero), Exact(R(1, 2)), Exact(One)>>,
      <<Exact(Zero), Exact(R(1, 4)), Exact(R(1, 2)), Exact(R(3, 4)), Exact(One)>>,
      <<Exact(Zero), Exact(R(1, 2)), Real(R(1, 2), 4), Exact(One)>>,
      <<Exact(Zero), Real(R(1, 2), 8), Real(One, -1)>>,
      <<Real(Zero, 1), Exact(R(1, 2)), Exact(R(1, 2))>> }

\* the points and tangents isLinearSegment is called with
SegmentEnds == { Pt(Zero, Zero), Pt(RInt(4), Zero), Pt(RInt(3), RInt(4)) }
SegmentTangents ==
    { Pt(Zero, Zero), Pt(RInt(3), RInt(6)), Pt(RInt(3), RInt(-6)),
      Pt(RInt(3), RInt(3)), Pt(RInt(-3), RInt(-3)), Pt(RInt(6), RInt(-20)) }

DeCasteljau(q, t) ==
    /\ ret' = [op |-> "deCasteljau", q |-> q, t |-> t,
               p |-> deCasteljau(q[1], q[2], q[3], q[4], t)]
    /\ UNCHANGED <<mesh, it, lastCall, patch, frame>>

LinearizeCurve(q) ==
    /\ \E res \in {linearizeCurve(q[1], q[2], q[3], q[4])} :
           ret' = [op |-> "linearizeCurve", q |-> q,
                   steps |-> res.steps, divByZero |-> res.divByZero]
    /\ UNCHANGED <<mesh, it, lastCall, patch, frame>>

MergeSteps(a, b) ==
    /\ ret' = [op |-> "mergeSteps", a |-> a, b |-> b, result |-> mergeSteps(a, b)]
    /\ UNCHANGED <<mesh, it, lastCall, patch, frame>>

IsLinearSegment(p0, d0, p1, d1) ==
    /\ ret' = [op |-> "isLinearSegment", p0 |-> p0, d0 |-> d0, p1 |-> p1, d1 |-> d1,
               result |-> isLinearSegment(p0, d0, p1, d1)]
    /\ UNCHANGED <<mesh, it, lastCall, patch, frame>>

NextCurve ==
    \/ \E q \in Curves : \E t \in SplitTValues : DeCasteljau(q, t)
    \/ \E q \in Curves : LinearizeCurve(q)
    \/ \E a \in StepSeqs : \E b \in StepSeqs : MergeSteps(a, b)
    \/ \E p1 \in SegmentEnds : \E d0 \in SegmentTangents : \E d1 \in SegmentTangents :
           IsLinearSegment(Pt(Zero, Zero), d0, p1, d1)

SpecCurve == Init /\ [][NextCurve]_vars

\* linearizeCurve(q) one pass of its loop per step: the call, a pass of the
\* loop, and the return of the steps once the stack is empty
LinearizeCurveBegin(q) ==
    /\ frame = NoFrame
    /\ frame' = [fn |-> "linearizeCurve", curve |-> q,
                 distSq |-> kisDistanceSq(q[1], q[4]),
                 st |-> LinearizeStart(q[1], q[2], q[3], q[4])]
    /\ UNCHANGED <<mesh, it, lastCall, patch, ret>>

LinearizeCurveIterate ==
    /\ frame.fn = "linearizeCurve"
    /\ frame.st[1] # <<>>
    /\ frame' = [frame EXCEPT
                    !.st = LinearizeIteration(frame.curve, frame.distSq, frame.st)]
    /\ UNCHANGED <<mesh, it, lastCall, patch, ret>>

LinearizeCurveReturn ==
    /\ frame.fn = "linearizeCurve"
    /\ frame.st[1] = <<>>
    /\ ret' = [op |-> "linearizeCurve", q |-> frame.curve,
               steps |-> frame.st[3], divByZero |-> frame.distSq = Zero]
    /\ frame' = NoFrame
    /\ UNCHANGED <<mesh, it, lastCall, patch>>

NextLinearize ==
    \/ \E q \in Curves : LinearizeCurveBegin(q)
    \/ LinearizeCurveIterate
    \/ LinearizeCurveReturn

\* a call that was begun keeps running: weak fairness of the pass and of the
\* return, WF_vars(LinearizeCurveRuns) with ENABLED written out: a pass or
\* the return is enabled exactly while a call is in progress, as a pass pops
\* or pushes and so changes the locals
LinearizeCurveRuns == LinearizeCurveIterate \/ LinearizeCurveReturn
LinearizeCurveFairness ==
    \/ []<>(frame.fn # "linearizeCurve")
    \/ []<><<LinearizeCurveRuns>>_vars

SpecLinearize ==
    InitSmallest /\ [][NextLinearize]_vars /\ LinearizeCurveFairness

(***************************************************************************)
(* Calls of calculateLocalPos and of the forward map.                      *)
(***************************************************************************)
\* the patches, destination points and iterates of the minimiser that
\* calculateLocalPos runs with
SolverPatches == { TestPatch([x |-> Zero, y |-> Zero, w |-> RInt(4), h |-> RInt(4)],
                             Pt(RInt(1), RInt(1)), Pt(RInt(1), RInt(1))) }
SolverIterates == { Pt(One, R(1, 2)), Pt(R(1, 2), Zero) }
SolverDstPoints == { Pt(RInt(2), R(11, 4)), Pt(R(13, 4), RInt(2)) }

\* calculateLocalPos(patch, dstPoint) up to its loop
CalculateLocalPosBegin(dstPoint) ==
    /\ frame = NoFrame
    /\ frame' = calculateLocalPosStart(patch, dstPoint, SolverIterates)
    /\ ret' = [op |-> "calculateLocalPos", dstPoint |-> dstPoint,
               outcome |-> "running"]
    /\ UNCHANGED <<mesh, it, lastCall, patch>>

\* one pass of the loop of calculateLocalPos
CalculateLocalPosIterate ==
    /\ frame.fn = "calculateLocalPos"
    /\ frame.pc = "loop"
    /\ \E outcome \in IterateOutcomes(frame.s, frame.moves) :
           frame' = calculateLocalPosPass(frame, outcome)
    /\ UNCHANGED <<mesh, it, lastCall, patch, ret>>

\* the statements behind the loop: gsl_vector_free(x),
\* gsl_multimin_fdfminimizer_free(s) and return result
CalculateLocalPosReturn ==
    /\ frame.fn = "calculateLocalPos"
    /\ frame.pc = "exit"
    /\ ret' = [op |-> "calculateLocalPos", dstPoint |-> frame.p.dstPoint,
               outcome |-> "returned",
               result |-> frame.result, x |-> frame.s.x,
               status |-> frame.status, iter |-> frame.iter,
               allocated |-> (frame.allocated \ {"x"}) \ {"s"}]
    /\ frame' = NoFrame
    /\ UNCHANGED <<mesh, it, lastCall, patch>>

\* one call on the default-constructed patch and on each patch that is set
NextSolver ==
    \/ \E p \in SolverPatches : frame = NoFrame /\ SetPatch(p)
    \/ \E dstPoint \in SolverDstPoints :
           ret.op # "calculateLocalPos" /\ CalculateLocalPosBegin(dstPoint)
    \/ CalculateLocalPosIterate
    \/ CalculateLocalPosReturn

SpecSolver == InitSmallest /\ [][NextSolver]_vars

\* the parameters the forward map is evaluated at
ForwardValues == { Zero, R(1, 4), R(1, 2), R(3, 4), One }

\* meshForwardMapping(u, v, p), meshForwardMappingDiffU(u, v, p) and
\* meshForwardMappingDiffV(u, v, p) for the p that calculateLocalPos builds
\* from the patch
MeshForwardMapping(u, v) ==
    /\ \E p \in {Params2D(patch, Pt(Zero, Zero))} :
           ret' = [op |-> "meshForwardMapping", u |-> u, v |-> v,
                   S |-> meshForwardMapping(u, v, p),
                   dU |-> meshForwardMappingDiffU(u, v, p),
                   dV |-> meshForwardMappingDiffV(u, v, p)]
    /\ UNCHANGED <<mesh, it, lastCall, patch, frame>>

\* one evaluation on every patch that is made or set
NextForward ==
    \/ \E col \in 0..(m_size.w - 2) : \E row \in 0..(m_size.h - 2) : MakePatch(col, row)
    \/ \E p \in TestPatches : SetPatch(p)
    \/ \E u \in ForwardValues : \E v \in ForwardValues :
           ret.op # "meshForwardMapping" /\ MeshForwardMapping(u, v)

SpecForward == Init /\ [][NextForward]_vars

\* the values two subdivisions in a row are called with
CommuteValues == { R(1, 2), R(5, 8), R(3, 4) }

\* the mesh m after op(t)
Subdivided(op, m, t) ==
    IF op = "subdivideRow"
    THEN subdivideRow(m.nodes, m.rows, m.columns, m.size, Exact(t))
    ELSE subdivideColumn(m.nodes, m.rows, m.columns, m.size, Exact(t))

\* mesh.op(a); mesh.op(b); on a copy of the mesh: the copy after the two calls
SubdividedTwice(op, a, b) ==
    Bind(Subdivided(op, [nodes |-> m_nodes, rows |-> m_rows,
                         columns |-> m_columns, size |-> m_size], a),
         LAMBDA m : Subdivided(op, m, b))

\* two copies of the mesh subdivided at a and b, one in either order
SubdivideTwice(op, a, b) ==
    /\ ret' = [op |-> "subdivideTwice", call |-> op, a |-> a, b |-> b,
               ab |-> SubdividedTwice(op, a, b),
               ba |-> SubdividedTwice(op, b, a)]
    /\ UNCHANGED <<mesh, it, lastCall, patch, frame>>

\* the positions of the axis that op subdivides
AxisPositions(op) == IF op = "subdivideRow" THEN m_rows ELSE m_columns

NextCommute ==
    \/ \E t \in PatchTValues : m_size.h < MaxPatchDim /\ SubdivideRow(t)
    \/ \E t \in PatchTValues : m_size.w < MaxPatchDim /\ SubdivideColumn(t)
    \/ \E op \in {"subdivideRow", "subdivideColumn"} :
       \E a \in CommuteValues : \E b \in CommuteValues \ {a} :
           /\ ret.op # "subdivideTwice"
           /\ \A k \in 1..Len(AxisPositions(op)) :
                  AxisPositions(op)[k] \notin {a, b}
           /\ SubdivideTwice(op, a, b)

SpecCommute == Init /\ [][NextCommute]_vars

(***************************************************************************)
(* Properties of subdivision.                                              *)
(***************************************************************************)
IsSubdivide(call) == call.op \in {"subdivideRow", "subdivideColumn"}

\* the position sequence the call works on
Positions(call) == IF call.op = "subdivideRow" THEN m_rows ELSE m_columns

\* t lies strictly between the adjacent positions seq[i] and seq[i + 1]
StrictlyBetween(seq, i, t) ==
    RealLt(Exact(seq[i]), t) /\ RealLt(t, Exact(seq[i + 1]))

StrictlyIncreasing(seq) == \A i \in 1..(Len(seq) - 1) : RLt(seq[i], seq[i + 1])

\* C1: a subdivideRow(t) / subdivideColumn(t) whose t already equals an
\* existing row / column position leaves the whole mesh unchanged
C1_Idempotence ==
    [][(/\ IsSubdivide(lastCall')
        /\ lastCall'.t.ulp = 0
        /\ \E i \in 1..Len(Positions(lastCall')) :
               Positions(lastCall')[i] = lastCall'.t.r)
       => mesh' = mesh]_vars

\* C2: the row positions and the column positions are strictly increasing
C2_StrictlyIncreasing == StrictlyIncreasing(m_rows) /\ StrictlyIncreasing(m_columns)

\* C3: the node storage holds width*height nodes, and there are width column
\* positions and height row positions
C3_StorageSizes ==
    /\ Len(m_nodes) = m_size.w * m_size.h
    /\ Len(m_columns) = m_size.w
    /\ Len(m_rows) = m_size.h

C3_Witness ==
    /\ lastCall.op = "subdivideRow"
    /\ m_size = [w |-> 3, h |-> 4]

\* C4: the first column and row position is 0 and the last one is 1
C4_EndPositions ==
    /\ m_columns[1] = Zero /\ m_columns[Len(m_columns)] = One
    /\ m_rows[1] = Zero /\ m_rows[Len(m_rows)] = One

C4_Witness ==
    /\ lastCall.op = "subdivideColumn"
    /\ lastCall.t = Exact(R(3, 4))
    /\ m_columns = <<Zero, R(1, 2), R(3, 4), One>>

\* the relative parameter of t within the bracket (seq[i], seq[i + 1])
RelativeT(seq, i, t) == RDiv(RSub(t.r, seq[i]), RSub(seq[i + 1], seq[i]))

PositionInserted(old, new, i, t) ==
    /\ Len(new) = Len(old) + 1
    /\ new[i + 1] = t.r
    /\ \A k \in 1..i : new[k] = old[k]
    /\ \A k \in (i + 2)..Len(new) : new[k] = old[k - 1]

\* node a is node b, but for the one control that the split rewrites
SameButRight(a, b) == a = [b EXCEPT !.rightControl = a.rightControl]
SameButLeft(a, b) == a = [b EXCEPT !.leftControl = a.leftControl]
SameButBottom(a, b) == a = [b EXCEPT !.bottomControl = a.bottomControl]
SameButTop(a, b) == a = [b EXCEPT !.topControl = a.topControl]

\* subdivideColumn(t) inserted a column between the columns L and L+1 (L = i - 1)
ColumnInsertedAt(i, t) ==
    /\ m_size' = [w |-> m_size.w + 1, h |-> m_size.h]
    /\ m_rows' = m_rows
    /\ PositionInserted(m_columns, m_columns', i, t)
    /\ Len(m_nodes') = (m_size.w + 1) * m_size.h
    /\ \A r \in 0..(m_size.h - 1) : \A c \in 0..m_size.w :
        LET new == node(m_nodes', m_size.w + 1, c, r)
        IN  /\ c < i - 1 => new = node(m_nodes, m_size.w, c, r)
            /\ c = i - 1 => SameButRight(new, node(m_nodes, m_size.w, c, r))
            /\ c = i => new = splitCurveHorizontally(
                                  node(m_nodes, m_size.w, i - 1, r),
                                  node(m_nodes, m_size.w, i, r),
                                  RelativeT(m_columns, i, t))[3]
            /\ c = i + 1 => SameButLeft(new, node(m_nodes, m_size.w, c - 1, r))
            /\ c > i + 1 => new = node(m_nodes, m_size.w, c - 1, r)

\* subdivideRow(t) inserted a row between the rows i - 1 and i (0-based)
RowInsertedAt(i, t) ==
    /\ m_size' = [w |-> m_size.w, h |-> m_size.h + 1]
    /\ m_columns' = m_columns
    /\ PositionInserted(m_rows, m_rows', i, t)
    /\ Len(m_nodes') = m_size.w * (m_size.h + 1)
    /\ \A c \in 0..(m_size.w - 1) : \A r \in 0..m_size.h :
        LET new == node(m_nodes', m_size.w, c, r)
        IN  /\ r < i - 1 => new = node(m_nodes, m_size.w, c, r)
            /\ r = i - 1 => SameButBottom(new, node(m_nodes, m_size.w, c, r))
            /\ r = i => new = splitCurveVertically(
                                  node(m_nodes, m_size.w, c, i - 1),
                                  node(m_nodes, m_size.w, c, i),
                                  RelativeT(m_rows, i, t))[3]
            /\ r = i + 1 => SameButTop(new, node(m_nodes, m_size.w, c, r - 1))
            /\ r > i + 1 => new = node(m_nodes, m_size.w, c, r - 1)

\* the step inserted the line of the bracket (i, i+1) that encloses t
InsertedAtBracket(i) ==
    /\ lastCall'.op = "subdivideColumn" => ColumnInsertedAt(i, lastCall'.t)
    /\ lastCall'.op = "subdivideRow" => RowInsertedAt(i, lastCall'.t)

\* C6 as stated: every subdivision with t strictly between two adjacent
\* positions grows that one dimension by 1 and inserts the new line at the
\* bracketing index
C6_InsertsAtBracket_AsStated ==
    [][IsSubdivide(lastCall') =>
          \A i \in 1..(Len(Positions(lastCall')) - 1) :
              StrictlyBetween(Positions(lastCall'), i, lastCall'.t)
                  => InsertedAtBracket(i)]_vars

\* C6: a subdivision with t strictly between two adjacent positions, and t
\* not within the tolerance of qFuzzyCompare of 1.0, grows that one dimension
\* by 1 and inserts the new line at the bracketing index: the nodes before
\* the bracket keep their index, the new nodes sit at index L+1, the nodes
\* behind move by one, t sits at index L+1 of the position sequence and the
\* other dimension and sequence are unchanged
C6_InsertsAtBracket ==
    [][(IsSubdivide(lastCall') /\ ~qFuzzyCompare(lastCall'.t, Exact(One))) =>
          \A i \in 1..(Len(Positions(lastCall')) - 1) :
              StrictlyBetween(Positions(lastCall'), i, lastCall'.t)
                  => InsertedAtBracket(i)]_vars

\* a column inserted in the middle of a mesh of three columns and rows
C6_Witness ==
    /\ lastCall.op = "subdivideColumn"
    /\ lastCall.t = Exact(R(1, 4))
    /\ m_columns = <<Zero, R(1, 4), R(1, 2), One>>
    /\ m_size.h >= 3

OutOfRange(t) == RealLt(t, Exact(Zero)) \/ RealLt(Exact(One), t)

\* C7 as stated: a subdivision with t < 0 or t > 1 triggers the assertion
\* and leaves the mesh unchanged
C7_OutOfRangeAsserts_AsStated ==
    [][(IsSubdivide(lastCall') /\ OutOfRange(lastCall'.t))
          => (lastCall'.asserted /\ mesh' = mesh)]_vars

\* C7: a subdivision with t < 0 or t > 1 leaves the mesh unchanged, and it
\* triggers the assertion unless t is within the tolerance of qFuzzyCompare
\* of 1.0, in which case it returns silently
C7_OutOfRangeUnchanged ==
    [][(IsSubdivide(lastCall') /\ OutOfRange(lastCall'.t))
          => /\ mesh' = mesh
             /\ lastCall'.asserted <=> ~qFuzzyCompare(lastCall'.t, Exact(One))]_vars

C7_Witness ==
    /\ lastCall.op = "subdivideRow"
    /\ lastCall.t = Exact(R(3, 2))
    /\ lastCall.asserted
    /\ m_size.w > 2

\* C8: a subdivision with t == 0 or t == 1 returns without an assertion
\* failure and leaves the mesh unchanged
C8_EndsSilentNoOp ==
    [][(IsSubdivide(lastCall') /\ lastCall'.t \in {Exact(Zero), Exact(One)})
          => (~lastCall'.asserted /\ mesh' = mesh)]_vars

C8_Witness ==
    /\ lastCall.op = "subdivideColumn"
    /\ lastCall.t = Exact(One)
    /\ ~lastCall.asserted
    /\ m_size.h > 2

(***************************************************************************)
(* Properties of the patch iterator.                                       *)
(***************************************************************************)
\* the iterator reached from i by k single increments
RECURSIVE IncrementN(_, _, _)
IncrementN(i, size, k) ==
    IF k = 0 THEN i ELSE IncrementN(increment(i, size), size, k - 1)

\* the iterator reached from i by k single decrements
RECURSIVE DecrementN(_, _, _)
DecrementN(i, size, k) ==
    IF k = 0 THEN i ELSE DecrementN(decrement(i, size), size, k - 1)

\* the patch index (col, row) of the k-th patch in row-major order
RowMajor(k, size) == [col |-> k % (size.w - 1), row |-> k \div (size.w - 1)]

\* C9: from begin(), k < (W-1)*(H-1) single increments reach the k-th patch
\* index in row-major order, which is not end(); (W-1)*(H-1) increments reach
\* end(); and distance(begin(), end()) is (W-1)*(H-1)
C9_IteratorBounds ==
    LET N == NumPatches(m_size)
    IN  /\ \A k \in 0..(N - 1) :
            /\ IncrementN(begin, m_size, k) = RowMajor(k, m_size)
            /\ RowMajor(k, m_size).col \in 0..(m_size.w - 2)
            /\ RowMajor(k, m_size).row \in 0..(m_size.h - 2)
            /\ IncrementN(begin, m_size, k) # end(m_size)
        /\ IncrementN(begin, m_size, N) = end(m_size)
        /\ distance_to(begin, end(m_size), m_size) = N
        /\ lastCall.op = "increment" =>
               LinearIndex(it, m_size) \in 1..N

\* the iterator was stepped up to end() on a subdivided mesh
C9_Witness ==
    /\ lastCall.op = "increment"
    /\ it = end(m_size)
    /\ m_size = [w |-> 3, h |-> 4]

\* C10: it += n, for an iterator in [begin, end] and a target in [begin, end],
\* gives the position of |n| single steps, at distance n from the start,
\* without failing the assertion of advance; --(++it) is it
C10_RandomAccess ==
    [][/\ lastCall'.op = "advance" =>
            /\ ~lastCall'.asserted
            /\ it' = IF lastCall'.n >= 0
                     THEN IncrementN(it, m_size, lastCall'.n)
                     ELSE DecrementN(it, m_size, -lastCall'.n)
            /\ distance_to(it, it', m_size) = lastCall'.n
       /\ lastCall'.op = "increment" => decrement(it', m_size) = it
      ]_vars

(***************************************************************************)
(* Properties of patches and of their sampling.                            *)
(***************************************************************************)
IsSample(r) == r.op \in {"sampleRegularGrid", "sampleIrregularGrid"}

\* the patch is one of the patches of the mesh
IsMeshPatch(p) ==
    \E col \in 0..(m_size.w - 2) : \E row \in 0..(m_size.h - 2) :
        p = makePatch(m_nodes, m_rows, m_columns, m_size, m_originalRect, col, row)

\* the bilinear interpolation of the four corners of a patch at (x, y)
Bilinear(P, x, y) ==
    PAdd(PAdd(PScale(RMul(RSub(One, x), RSub(One, y)), P.TL),
              PScale(RMul(x, RSub(One, y)), P.TR)),
         PAdd(PScale(RMul(RSub(One, x), y), P.BL),
              PScale(RMul(x, y), P.BR)))

\* C11: every destination point that sampleIrregularGrid or sampleRegularGrid
\* produces for a patch of a freshly constructed mesh is the bilinear
\* interpolation of the four corners of the patch at the proportions (x, y)
\* of the point
C11_DegenerateSampling ==
    (IsSample(ret) /\ lastCall.op = "construct" /\ IsMeshPatch(patch)) =>
        \A k \in 1..Len(ret.transfPoints) :
            ret.transfPoints[k] =
                Bilinear(patch.points, ret.proportions[k][1], ret.proportions[k][2])

\* C12: a mesh constructed with the rectangle R and the size W x H has, for
\* every col < W and row < H, node(col, row) at
\* (R.x + col/(W-1)*R.width, R.y + row/(H-1)*R.height) with all four controls
\* on that position, the column positions col/(W-1) and the row positions
\* row/(H-1)
C12_Constructor ==
    lastCall.op = "construct" =>
        /\ \A col \in 0..(m_size.w - 1) : \A row \in 0..(m_size.h - 1) :
               LET pos == Pt(RAdd(m_originalRect.x,
                                  RDiv(RMul(RInt(col), m_originalRect.w),
                                       RInt(m_size.w - 1))),
                             RAdd(m_originalRect.y,
                                  RDiv(RMul(RInt(row), m_originalRect.h),
                                       RInt(m_size.h - 1))))
                   n == node(m_nodes, m_size.w, col, row)
               IN  /\ n.node = pos
                   /\ n.leftControl = pos /\ n.rightControl = pos
                   /\ n.topControl = pos /\ n.bottomControl = pos
        /\ \A col \in 0..(m_size.w - 1) :
               m_columns[col + 1] = RDiv(RInt(col), RInt(m_size.w - 1))
        /\ \A row \in 0..(m_size.h - 1) :
               m_rows[row + 1] = RDiv(RInt(row), RInt(m_size.h - 1))

\* a constructed mesh of three columns
C12_Witness ==
    /\ lastCall.op = "construct"
    /\ m_size = [w |-> 3, h |-> 2]
    /\ node(m_nodes, m_size.w, 1, 1).node = Pt(RInt(25), RInt(80))


\* C13: for any patch, a destination point sampled at xProportion = 0 (1) is
\* the point of the left (right) boundary curve at yProportion, and one
\* sampled at yProportion = 0 (1) is the point of the top (bottom) boundary
\* curve at xProportion
C13_CoonsBoundary ==
    IsSample(ret) =>
        \A k \in 1..Len(ret.transfPoints) :
            LET P == patch.points
                x == ret.proportions[k][1]
                y == ret.proportions[k][2]
                transf == ret.transfPoints[k]
            IN  /\ x = Zero => transf = bezierCurve(P.TL, P.TL_VC, P.BL_VC, P.BL, y)
                /\ x = One => transf = bezierCurve(P.TR, P.TR_VC, P.BR_VC, P.BR, y)
                /\ y = Zero => transf = bezierCurve(P.TL, P.TL_HC, P.TR_HC, P.TR, x)
                /\ y = One => transf = bezierCurve(P.BL, P.BL_HC, P.BR_HC, P.BR, x)

\* the irregular grid of a patch with curved boundaries has points on the
\* boundary that are not corners
C13_Witness ==
    /\ ret.op = "sampleIrregularGrid"
    /\ patch \in TestPatches
    /\ ret.gridSize.w >= 3 /\ ret.gridSize.h >= 3
    /\ \E k \in 1..Len(ret.transfPoints) :
           /\ ret.proportions[k] = Pt(Zero, R(1, 2))
           /\ ret.transfPoints[k] # lerp(patch.points.TL, patch.points.BL, R(1, 2))


(***************************************************************************)
(* Properties of the functions of curves.                                  *)
(***************************************************************************)
\* the parameters s at which two cubics are compared; cubics that agree at
\* four parameters agree at all
SValues == { Zero, R(1, 3), R(1, 2), R(2, 3), One }

\* C14: deCasteljau(q0, q1, q2, q3, t) returns p0..p4 such that the cubic
\* (q0, p0, p1, p2) at s is the cubic (q0, q1, q2, q3) at s*t, the cubic
\* (p2, p3, p4, q3) at s is the cubic (q0, q1, q2, q3) at t + s*(1 - t), and
\* p2 is bezierCurve(q0, q1, q2, q3, t)
C14_SplitReproducesCurve ==
    ret.op = "deCasteljau" =>
        LET q == ret.q
            p == ret.p
            t == ret.t
        IN  /\ p[3] = bezierCurve(q[1], q[2], q[3], q[4], t)
            /\ \A s \in SValues :
                   /\ bezierCurve(q[1], p[1], p[2], p[3], s) =
                          bezierCurve(q[1], q[2], q[3], q[4], RMul(s, t))
                   /\ bezierCurve(p[3], p[4], p[5], q[4], s) =
                          bezierCurve(q[1], q[2], q[3], q[4],
                                      RAdd(t, RMul(s, RSub(One, t))))

\* an S-shaped curve split at a quarter
C14_Witness ==
    /\ ret.op = "deCasteljau"
    /\ ret.t = R(1, 4)
    /\ ret.q = <<Pt(Zero, Zero), Pt(RInt(1), RInt(3)), Pt(RInt(3), RInt(-3)),
                 Pt(RInt(4), Zero)>>
    /\ ret.p[3] # lerp(ret.q[1], ret.q[4], R(1, 4))


\* the value v is in seq up to the tolerance of qFuzzyCompare
ContainsFuzzy(seq, v) == \E i \in 1..Len(seq) : seq[i] = v \/ qFuzzyCompare(seq[i], v)

\* C15: mergeSteps(a, b) of two sorted sequences is sorted, contains up to
\* the tolerance every value of a and of b, has no two adjacent values that
\* are equal within the tolerance, and merges [0, 0.3, 1] and [0, 0.5, 1]
\* to [0, 0.3, 0.5, 1]
C15_MergeSteps ==
    ret.op = "mergeSteps" =>
        LET r == ret.result
        IN  /\ \A i \in 1..(Len(r) - 1) : ~RealLt(r[i + 1], r[i])
            /\ \A i \in 1..Len(ret.a) : ContainsFuzzy(r, ret.a[i])
            /\ \A i \in 1..Len(ret.b) : ContainsFuzzy(r, ret.b[i])
            /\ \A i \in 1..(Len(r) - 1) : ~qFuzzyCompare(r[i], r[i + 1])
            /\ (/\ ret.a = <<Exact(Zero), Exact(R(3, 10)), Exact(One)>>
                /\ ret.b = <<Exact(Zero), Exact(R(1, 2)), Exact(One)>>)
               => r = <<Exact(Zero), Exact(R(3, 10)), Exact(R(1, 2)), Exact(One)>>

\* three values in a row of which each is within the tolerance of the next
\* but the first is not within the tolerance of the third
C15_Witness ==
    /\ ret.op = "mergeSteps"
    /\ ret.a = <<Exact(Zero), Exact(R(1, 2)), Real(R(1, 2), 4), Exact(One)>>
    /\ ret.b = <<Exact(Zero), Real(R(1, 2), 8), Real(One, -1)>>
    /\ ret.result = <<Exact(Zero), Exact(R(1, 2)), Real(R(1, 2), 8), Real(One, -1)>>


\* a sub-interval of the length len is shorter than 2 / |p3 - p0|
ShorterThanMinStep(len, p0, p3) ==
    RLt(RMul(RMul(len, len), kisDistanceSq(p0, p3)), RInt(4))

\* isLinearSegment accepts the piece of the curve q between the parameters
\* a and b
AcceptedAsLinear(q, a, b) ==
    isLinearSegment(bezierCurve(q[1], q[2], q[3], q[4], a),
                    bezierCurveDeriv(q[1], q[2], q[3], q[4], a),
                    bezierCurve(q[1], q[2], q[3], q[4], b),
                    bezierCurveDeriv(q[1], q[2], q[3], q[4], b))

\* C16: linearizeCurve(p0, p1, p2, p3) returns a strictly increasing
\* sequence of parameters that starts with 0 and ends with 1, and every two
\* consecutive parameters delimit a sub-interval that is shorter than the
\* minimum step 2 / |p3 - p0| or is accepted by isLinearSegment
C16_LinearizeCurve ==
    ret.op = "linearizeCurve" =>
        LET steps == ret.steps
            q == ret.q
        IN  /\ Len(steps) >= 2
            /\ steps[1] = Zero
            /\ steps[Len(steps)] = One
            /\ \A i \in 1..(Len(steps) - 1) :
                   /\ RLt(steps[i], steps[i + 1])
                   /\ \/ ShorterThanMinStep(RSub(steps[i + 1], steps[i]), q[1], q[4])
                      \/ AcceptedAsLinear(q, steps[i], steps[i + 1])

\* a curve whose halves are not accepted as linear and whose quarters are
\* shorter than the minimum step
C16_Witness ==
    /\ ret.op = "linearizeCurve"
    /\ ret.steps = <<Zero, R(1, 4), R(1, 2), R(3, 4), One>>
    /\ ~AcceptedAsLinear(ret.q, Zero, R(1, 2))
    /\ ~ShorterThanMinStep(R(1, 2), ret.q[1], ret.q[4])


\* C17: linearizeCurve on a curve with p0 == p3 divides by no zero chord
\* length and returns exactly the two endpoints [0, 1]
C17_ZeroChordGuarded ==
    (ret.op = "linearizeCurve" /\ ret.q[1] = ret.q[4]) =>
        /\ ~ret.divByZero
        /\ ret.steps = <<Zero, One>>

\* the perpendicular deviation |cross(p1 - p0, d)| / (3 * |p1 - p0|) that the
\* tangent d implies exceeds 1, for p1 # p0
DeviationExceeds(p0, p1, d) ==
    LET cross == crossProduct(PSub(p1, p0), d)
    IN  RLt(RMul(RInt(9), normSq(PSub(p1, p0))), RMul(cross, cross))

\* C18: isLinearSegment(p0, d0, p1, d1) returns false whenever the deviation
\* of d0 or of d1 exceeds 1, whatever the sign of the cross product, and
\* true only when both deviations are within the threshold
C18_EitherSide ==
    (ret.op = "isLinearSegment" /\ ret.p0 # ret.p1) =>
        ret.result = (/\ ~DeviationExceeds(ret.p0, ret.p1, ret.d0)
                      /\ ~DeviationExceeds(ret.p0, ret.p1, ret.d1))


(***************************************************************************)
(* Properties of node and makePatch.                                       *)
(***************************************************************************)
\* the step is a call of op on the mesh as it stands
IsLookup(op) == ret'.op = op /\ mesh' = mesh /\ lastCall' = lastCall

\* the absolute position of the relative column position c and row position r
AbsoluteX(c) == RAdd(m_originalRect.x, RMul(c, m_originalRect.w))
AbsoluteY(r) == RAdd(m_originalRect.y, RMul(r, m_originalRect.h))

\* C19: makePatch(col, row) for 0 <= col < W-1 and 0 <= row < H-1 takes the
\* corners from the nodes (col,row), (col+1,row), (col,row+1), (col+1,row+1),
\* the horizontal controls from rightControl of the left and leftControl of
\* the right nodes, the vertical controls from bottomControl of the top and
\* topControl of the bottom nodes, and the source rectangle spans
\* columns[col]..columns[col+1] and rows[row]..rows[row+1] mapped into the
\* source rectangle of the mesh, so that the rectangles of neighbouring
\* patches share their edge, the outer edges are those of the mesh and no
\* rectangle has a negative extent
C19_MakePatch ==
    [][(/\ IsLookup("makePatch")
        /\ ret'.col \in 0..(m_size.w - 2)
        /\ ret'.row \in 0..(m_size.h - 2)) =>
          LET col == ret'.col
              row == ret'.row
              tl == node(m_nodes, m_size.w, col, row)
              tr == node(m_nodes, m_size.w, col + 1, row)
              bl == node(m_nodes, m_size.w, col, row + 1)
              br == node(m_nodes, m_size.w, col + 1, row + 1)
              P == patch'.points
              rc == patch'.originalRect
          IN  /\ ret'.outcome = "returned"
              /\ P.TL = tl.node /\ P.TR = tr.node
              /\ P.BL = bl.node /\ P.BR = br.node
              /\ P.TL_HC = tl.rightControl /\ P.BL_HC = bl.rightControl
              /\ P.TR_HC = tr.leftControl /\ P.BR_HC = br.leftControl
              /\ P.TL_VC = tl.bottomControl /\ P.TR_VC = tr.bottomControl
              /\ P.BL_VC = bl.topControl /\ P.BR_VC = br.topControl
              /\ rc.x = AbsoluteX(m_columns[col + 1])
              /\ RAdd(rc.x, rc.w) = AbsoluteX(m_columns[col + 2])
              /\ rc.y = AbsoluteY(m_rows[row + 1])
              /\ RAdd(rc.y, rc.h) = AbsoluteY(m_rows[row + 2])
              /\ RLe(Zero, rc.w) /\ RLe(Zero, rc.h)
              /\ col = 0 => rc.x = m_originalRect.x
              /\ row = 0 => rc.y = m_originalRect.y
              /\ col = m_size.w - 2 =>
                     RAdd(rc.x, rc.w) = RAdd(m_originalRect.x, m_originalRect.w)
              /\ row = m_size.h - 2 =>
                     RAdd(rc.y, rc.h) = RAdd(m_originalRect.y, m_originalRect.h)
              /\ col < m_size.w - 2 =>
                     makePatch(m_nodes, m_rows, m_columns, m_size, m_originalRect,
                               col + 1, row).originalRect.x = RAdd(rc.x, rc.w)
              /\ row < m_size.h - 2 =>
                     makePatch(m_nodes, m_rows, m_columns, m_size, m_originalRect,
                               col, row + 1).originalRect.y = RAdd(rc.y, rc.h)
      ]_vars

\* the second patch of a mesh whose columns are 0, 1/4, 1: its left corners
\* are nodes that a subdivision has created
C19_Witness ==
    /\ ret.op = "makePatch" /\ ret.outcome = "returned"
    /\ ret.col = 1 /\ ret.row = 0
    /\ m_columns = <<Zero, R(1, 4), One>>
    /\ patch = makePatch(m_nodes, m_rows, m_columns, m_size, m_originalRect, 1, 0)
    /\ patch.points.TL_HC # patch.points.TL
    /\ patch.originalRect.w = RMul(R(3, 4), m_originalRect.w)

\* C20: node(col, row) with col outside [0, width) or row outside
\* [0, height) gives an error signal and returns no node of the mesh, and
\* makePatch(col, row) with col >= width-1 or row >= height-1 is rejected
\* likewise
C20_BoundsChecked ==
    [][/\ (/\ IsLookup("node")
            /\ ~(ret'.col \in 0..(m_size.w - 1) /\ ret'.row \in 0..(m_size.h - 1)))
           => ret'.outcome # "returned"
       /\ (/\ IsLookup("makePatch")
            /\ (ret'.col >= m_size.w - 1 \/ ret'.row >= m_size.h - 1))
           => ret'.outcome # "returned"
      ]_vars

(***************************************************************************)
(* Properties of calculateLocalPos and of the forward map.                 *)
(***************************************************************************)
Returned(r) == r.op = "calculateLocalPos" /\ r.outcome = "returned"

\* C21: calculateLocalPos returns the last iterate of the minimiser, both
\* components taken from it, whatever status the iteration reports; with no
\* successful step that is the starting point (0.5, 0.5)
C21_ReturnsLastIterate ==
    Returned(ret) =>
        /\ ret.result = ret.x
        /\ (ret.iter = 1 /\ ret.status = "GSL_ENOPROG") =>
               ret.result = Pt(R(1, 2), R(1, 2))

\* the squared norm n / d of the gradient g is below 1 / tolInv^2
NormBelow(g, tolInv) ==
    LET sq == normSq(g)
    IN  sq[1] < -((-sq[2]) \div (tolInv * tolInv))

Running == frame.fn = "calculateLocalPos"

\* C22: calculateLocalPos terminates: every pass of its loop counts iter up
\* by one, a pass is made only with iter below 10000, a pass is the last one
\* exactly when the iteration reports an error, the gradient test succeeds
\* (the norm of the gradient is below 1e-4) or the 10000th pass was made, a
\* call in progress is in its loop or behind it, where its only step is to
\* release the minimiser and the start vector and to return
C22_Terminates ==
    /\ [](Running => /\ frame.iter <= IterationBudget
                      /\ frame.pc = "loop" => frame.iter < IterationBudget
                      /\ frame.pc \in {"loop", "exit"})
    /\ [][(Running /\ frame.pc = "loop" /\ frame' # frame) =>
            /\ frame'.iter = frame.iter + 1
            /\ frame'.pc = "exit" <=>
                   \/ frame'.status = "GSL_ENOPROG"
                   \/ frame'.status = "GSL_SUCCESS"
                   \/ frame'.iter = IterationBudget
            /\ frame'.status = "GSL_SUCCESS" => NormBelow(frame'.s.gradient, 10000)
            /\ frame'.status = "GSL_CONTINUE" => ~NormBelow(frame'.s.gradient, 10000)
         ]_vars
    /\ [][(Running /\ frame.pc = "exit" /\ frame' # frame) =>
            (Returned(ret') /\ ~Running' /\ ret'.allocated = {})]_vars

\* a call that used up the budget without an error and without a
\* successful gradient test
C22_Witness ==
    /\ Returned(ret)
    /\ ret.iter = IterationBudget
    /\ ret.status = "GSL_CONTINUE"

\* the derivative at x of a polynomial f of a degree up to 4, from its values
\* f(x - 2h), f(x - h), f(x + h), f(x + 2h) = f[1], f[2], f[3], f[4]:
\* (8 * (f[3] - f[2]) - (f[4] - f[1])) / (12 * h)
StencilDeriv(f, h) ==
    PScale(RDiv(One, RMul(RInt(12), h)),
           PSub(PScale(RInt(8), PSub(f[3], f[2])), PSub(f[4], f[1])))

StencilStep == R(1, 4)
StencilOffsets == << R(-1, 2), R(-1, 4), R(1, 4), R(1, 2) >>

\* C23: for the parameters p that calculateLocalPos builds from a patch,
\* meshForwardMapping(u, v, p) is the point Sc + Sd - Sb that the sampling
\* functions compute at (xProportion, yProportion) = (u, v), and
\* meshForwardMappingDiffU and meshForwardMappingDiffV are the partial
\* derivatives of meshForwardMapping in u and in v
C23_ForwardMapIsCoons ==
    ret.op = "meshForwardMapping" =>
        \A params \in {Params2D(patch, Pt(Zero, Zero))} :
            /\ ret.S = CoonsPoint(patch.points, ret.u, ret.v)
            /\ \A alongU \in {[i \in 1..4 |->
                                  meshForwardMapping(RAdd(ret.u, StencilOffsets[i]),
                                                     ret.v, params)]} :
                   ret.dU = StencilDeriv(alongU, StencilStep)
            /\ \A alongV \in {[i \in 1..4 |->
                                  meshForwardMapping(ret.u,
                                                     RAdd(ret.v, StencilOffsets[i]),
                                                     params)]} :
                   ret.dV = StencilDeriv(alongV, StencilStep)

\* the forward map inside a patch with curved boundaries, off the bilinear
\* interpolation of its corners
C23_Witness ==
    /\ ret.op = "meshForwardMapping"
    /\ patch \in TestPatches
    /\ ret.u = R(1, 4) /\ ret.v = R(3, 4)
    /\ ret.S # Bilinear(patch.points, ret.u, ret.v)
    /\ ret.dU # PSub(patch.points.TR, patch.points.TL)

(***************************************************************************)
(* Further properties of subdivision.                                      *)
(***************************************************************************)
\* the step is a subdivideRow / subdivideColumn that inserted a line
RowInserted == lastCall'.op = "subdivideRow" /\ m_size'.h = m_size.h + 1
ColumnInserted == lastCall'.op = "subdivideColumn" /\ m_size'.w = m_size.w + 1

\* the 1-based index of the bracket the lookup of the call locates, and the
\* parameter the curves are split at
RowBracket == PrevUpperBound(m_rows, lastCall'.t.r)
ColumnBracket == PrevUpperBound(m_columns, lastCall'.t.r)
RowSplitT == RelativeT(m_rows, RowBracket, lastCall'.t)
ColumnSplitT == RelativeT(m_columns, ColumnBracket, lastCall'.t)

\* C25 as stated: the node that splitCurveVertically(top, bottom, t, newNode)
\* creates has leftControl = lerp(top.leftControl, bottom.leftControl, t)
\* and rightControl likewise, and the one splitCurveHorizontally creates has
\* topControl and bottomControl the lerp at t of those of left and right
C25_LerpControls_AsStated ==
    [][/\ RowInserted =>
            \A c \in 0..(m_size.w - 1) :
                LET top == node(m_nodes, m_size.w, c, RowBracket - 1)
                    bottom == node(m_nodes, m_size.w, c, RowBracket)
                    newNode == node(m_nodes', m_size'.w, c, RowBracket)
                IN  /\ newNode.leftControl =
                           lerp(top.leftControl, bottom.leftControl, RowSplitT)
                    /\ newNode.rightControl =
                           lerp(top.rightControl, bottom.rightControl, RowSplitT)
       /\ ColumnInserted =>
            \A r \in 0..(m_size.h - 1) :
                LET left == node(m_nodes, m_size.w, ColumnBracket - 1, r)
                    right == node(m_nodes, m_size.w, ColumnBracket, r)
                    newNode == node(m_nodes', m_size'.w, ColumnBracket, r)
                IN  /\ newNode.topControl =
                           lerp(left.topControl, right.topControl, ColumnSplitT)
                    /\ newNode.bottomControl =
                           lerp(left.bottomControl, right.bottomControl, ColumnSplitT)
      ]_vars

\* C25: the node that splitCurveVertically(top, bottom, t, newNode) creates
\* has leftControl - node = lerp(top.leftControl - top.node,
\* bottom.leftControl - bottom.node, t) and rightControl likewise: the
\* offsets of the controls from their nodes are interpolated, not the
\* controls; symmetrically for topControl and bottomControl of the node that
\* splitCurveHorizontally creates
C25_LerpControlOffsets ==
    [][/\ RowInserted =>
            \A c \in 0..(m_size.w - 1) :
                LET top == node(m_nodes, m_size.w, c, RowBracket - 1)
                    bottom == node(m_nodes, m_size.w, c, RowBracket)
                    newNode == node(m_nodes', m_size'.w, c, RowBracket)
                IN  /\ PSub(newNode.leftControl, newNode.node) =
                           lerp(PSub(top.leftControl, top.node),
                                PSub(bottom.leftControl, bottom.node), RowSplitT)
                    /\ PSub(newNode.rightControl, newNode.node) =
                           lerp(PSub(top.rightControl, top.node),
                                PSub(bottom.rightControl, bottom.node), RowSplitT)
       /\ ColumnInserted =>
            \A r \in 0..(m_size.h - 1) :
                LET left == node(m_nodes, m_size.w, ColumnBracket - 1, r)
                    right == node(m_nodes, m_size.w, ColumnBracket, r)
                    newNode == node(m_nodes', m_size'.w, ColumnBracket, r)
                IN  /\ PSub(newNode.topControl, newNode.node) =
                           lerp(PSub(left.topControl, left.node),
                                PSub(right.topControl, right.node), ColumnSplitT)
                    /\ PSub(newNode.bottomControl, newNode.node) =
                           lerp(PSub(left.bottomControl, left.node),
                                PSub(right.bottomControl, right.node), ColumnSplitT)
      ]_vars

\* a row inserted at a quarter into a mesh with an inserted column: the new
\* node of that column has controls to its left and right that are off the
\* node
C25_Witness ==
    /\ lastCall.op = "subdivideRow"
    /\ lastCall.t = Exact(R(1, 4))
    /\ m_columns = <<Zero, R(1, 4), One>>
    /\ m_rows = <<Zero, R(1, 4), One>>
    /\ node(m_nodes, m_size.w, 1, 1).leftControl # node(m_nodes, m_size.w, 1, 1).node
    /\ node(m_nodes, m_size.w, 1, 1).rightControl # node(m_nodes, m_size.w, 1, 1).node

\* the index after the insertion behind line i - 1 (0-based) of the line
\* that had the 0-based index k before
IndexBehindInsertion(k, i) == IF k < i THEN k ELSE k + 1

\* C26: a subdivideRow(t) that inserts a row into the bracket of the rows
\* i and i+1 changes, among the nodes there were, only bottomControl of the
\* nodes of row i and topControl of the nodes of the former row i+1: the
\* position of every node, the other controls, the nodes outside the bracket,
\* the column sequence, the width and the source rectangle are unchanged;
\* symmetrically subdivideColumn changes only rightControl of column L and
\* leftControl of column L+1; and no step removes a node
C26_SubdivisionFrame ==
    [][/\ RowInserted =>
            /\ m_columns' = m_columns
            /\ m_size'.w = m_size.w
            /\ m_originalRect' = m_originalRect
            /\ \A c \in 0..(m_size.w - 1) : \A r \in 0..(m_size.h - 1) :
                LET old == node(m_nodes, m_size.w, c, r)
                    new == node(m_nodes', m_size'.w, c,
                                IndexBehindInsertion(r, RowBracket))
                IN  /\ new.node = old.node
                    /\ new.leftControl = old.leftControl
                    /\ new.rightControl = old.rightControl
                    /\ r # RowBracket - 1 => new.bottomControl = old.bottomControl
                    /\ r # RowBracket => new.topControl = old.topControl
       /\ ColumnInserted =>
            /\ m_rows' = m_rows
            /\ m_size'.h = m_size.h
            /\ m_originalRect' = m_originalRect
            /\ \A c \in 0..(m_size.w - 1) : \A r \in 0..(m_size.h - 1) :
                LET old == node(m_nodes, m_size.w, c, r)
                    new == node(m_nodes', m_size'.w,
                                IndexBehindInsertion(c, ColumnBracket), r)
                IN  /\ new.node = old.node
                    /\ new.topControl = old.topControl
                    /\ new.bottomControl = old.bottomControl
                    /\ c # ColumnBracket - 1 => new.rightControl = old.rightControl
                    /\ c # ColumnBracket => new.leftControl = old.leftControl
       /\ Len(m_nodes') >= Len(m_nodes)
      ]_vars

\* a row inserted into the last bracket of a mesh of three rows: the first
\* row is outside the bracket, and the split moved bottomControl of the
\* second row off its node
C26_Witness ==
    /\ lastCall.op = "subdivideRow"
    /\ lastCall.t = Exact(R(3, 4))
    /\ m_rows = <<Zero, R(1, 2), R(3, 4), One>>
    /\ node(m_nodes, m_size.w, 0, 1).bottomControl # node(m_nodes, m_size.w, 0, 1).node
    /\ node(m_nodes, m_size.w, 0, 2).topControl # node(m_nodes, m_size.w, 0, 2).node

\* makePatch(col, row) of the mesh as it is
PatchOfMesh(col, row) ==
    makePatch(m_nodes, m_rows, m_columns, m_size, m_originalRect, col, row).points

\* C27: in every mesh reached by row and column subdivisions, the right
\* boundary curve (TR, TR_VC, BR_VC, BR) of makePatch(c, r) is point for
\* point the left boundary curve (TL, TL_VC, BL_VC, BL) of makePatch(c+1, r),
\* and the bottom curve (BL, BL_HC, BR_HC, BR) of makePatch(c, r) is the top
\* curve (TL, TL_HC, TR_HC, TR) of makePatch(c, r+1)
C27_PatchContinuity ==
    /\ \A c \in 0..(m_size.w - 3) : \A r \in 0..(m_size.h - 2) :
           \A P \in {PatchOfMesh(c, r)} : \A Q \in {PatchOfMesh(c + 1, r)} :
               <<P.TR, P.TR_VC, P.BR_VC, P.BR>> = <<Q.TL, Q.TL_VC, Q.BL_VC, Q.BL>>
    /\ \A c \in 0..(m_size.w - 2) : \A r \in 0..(m_size.h - 3) :
           \A P \in {PatchOfMesh(c, r)} : \A Q \in {PatchOfMesh(c, r + 1)} :
               <<P.BL, P.BL_HC, P.BR_HC, P.BR>> = <<Q.TL, Q.TL_HC, Q.TR_HC, Q.TR>>

\* a mesh after two row and two column subdivisions, whose middle patch
\* shares curves of four distinct points with its right and lower neighbours
C27_Witness ==
    /\ m_rows = <<Zero, R(1, 4), R(1, 2), One>>
    /\ m_columns = <<Zero, R(1, 4), R(3, 4), One>>
    /\ \A P \in {PatchOfMesh(1, 1)} :
           /\ Cardinality({P.TR, P.TR_VC, P.BR_VC, P.BR}) = 4
           /\ Cardinality({P.BL, P.BL_HC, P.BR_HC, P.BR}) = 4

(***************************************************************************)
(* Termination of linearizeCurve.                                          *)
(***************************************************************************)
Linearizing(q) == frame.fn = "linearizeCurve" /\ frame.curve = q

\* the gap between the parameter on top of the stack and the last accepted
\* parameter
TopGap(fr) == RSub(fr.st[1][Len(fr.st[1])][3], fr.st[2][3])

\* C28: linearizeCurve terminates on every curve with p0 # p3, and the last
\* value it emits is 1: a pass that rejects the interval up to the top of
\* the stack pushes its midpoint, which halves the gap between the last
\* accepted parameter and the top; a gap below the minimum step
\* 2/|p3 - p0|, which is positive, is accepted and popped; every pass
\* changes the stack; and a call that keeps running reaches its return with
\* steps that end in 1
C28_LinearizeTerminates ==
    /\ [][(frame.fn = "linearizeCurve" /\ frame'.fn = "linearizeCurve"
              /\ frame.curve[1] # frame.curve[4]) =>
            \/ /\ Len(frame'.st[1]) = Len(frame.st[1]) + 1
               /\ frame'.st[2] = frame.st[2] /\ frame'.st[3] = frame.st[3]
               /\ RMul(RInt(2), TopGap(frame')) = TopGap(frame)
               /\ ~LessThanMinStep(TopGap(frame), frame.distSq)
            \/ /\ frame'.st[1] = SubSeq(frame.st[1], 1, Len(frame.st[1]) - 1)
               /\ frame'.st[2] = frame.st[1][Len(frame.st[1])]
               /\ frame'.st[3] = Append(frame.st[3], frame.st[1][Len(frame.st[1])][3])
      ]_vars
    /\ [](frame.fn = "linearizeCurve" =>
            /\ RLt(Zero, frame.distSq) => RLt(Zero, RDiv(RInt(4), frame.distSq))
            /\ frame.st[1] # <<>> =>
                   LinearizeIteration(frame.curve, frame.distSq, frame.st) # frame.st
            /\ frame.st[1] # <<>> => frame.st[1][1][3] = One
            /\ frame.st[1] = <<>> => frame.st[3][Len(frame.st[3])] = One)
    /\ \A q \in Curves :
           q[1] # q[4] =>
               (Linearizing(q) ~>
                    (/\ frame = NoFrame
                     /\ ret.op = "linearizeCurve" /\ ret.q = q
                     /\ ret.steps[Len(ret.steps)] = One))

\* the call on a curve whose whole and whose first half are rejected has
\* returned five steps
C28_Witness ==
    /\ frame = NoFrame
    /\ ret.op = "linearizeCurve"
    /\ ret.q[1] # ret.q[4]
    /\ ret.steps = <<Zero, R(1, 4), R(1, 2), R(3, 4), One>>

\* the call reaches the lookup of its bracket: it passed the early return
\* and the assertion
ReachesLookup(call) ==
    IsSubdivide(call) /\ ~SubdivideNoOp(call.t) /\ SubdivideInRange(call.t)

\* C29: whenever a subdivideRow(t) / subdivideColumn(t) with 0 < t < 1 looks
\* its bracket up, the index i of prev(upper_bound(t)) and its successor are
\* inside the position sequence (0 <= i < dimension - 1, here 1-based),
\* positions[i] <= t < positions[i+1], the denominator
\* positions[i+1] - positions[i] is not zero and the relative parameter is in
\* [0, 1)
C29_BracketLookupSafe ==
    [][ReachesLookup(lastCall') =>
          \A seq \in {Positions(lastCall')} :
          \A i \in {PrevUpperBound(seq, lastCall'.t.r)} :
              /\ 1 <= i /\ i < Len(seq)
              /\ RLe(seq[i], lastCall'.t.r)
              /\ RLt(lastCall'.t.r, seq[i + 1])
              /\ RSub(seq[i + 1], seq[i]) # Zero
              /\ RLe(Zero, RelativeT(seq, i, lastCall'.t))
              /\ RLt(RelativeT(seq, i, lastCall'.t), One)
              /\ (IF lastCall'.op = "subdivideRow" THEN m_rows' ELSE m_columns')
                     = InsertAt(seq, i + 1, lastCall'.t.r)]_vars

\* a column looked up at a position that is already a column: the relative
\* parameter is 0
C29_Witness ==
    /\ lastCall.op = "subdivideColumn"
    /\ lastCall.t = Exact(R(1, 2))
    /\ m_columns = <<Zero, R(1, 2), R(1, 2), One>>

(***************************************************************************)
(* Two subdivisions of one axis.                                           *)
(***************************************************************************)
\* C30: for a mesh reached by subdivisions and two distinct values a, b in
\* (0,1) that match no position of the axis, subdivideRow(a) followed by
\* subdivideRow(b) gives the same mesh (size, position sequences, every node
\* and every control, in exact arithmetic) as subdivideRow(b) followed by
\* subdivideRow(a); likewise for subdivideColumn
C30_SameAxisCommute ==
    ret.op = "subdivideTwice" => ret.ab = ret.ba

\* the rows 1/2 and 5/8 inserted, in either order, into the bracket left of a
\* mesh whose rows were subdivided at 1/4 and whose columns were subdivided
C30_Witness ==
    /\ ret.op = "subdivideTwice"
    /\ ret.call = "subdivideRow"
    /\ ret.a = R(1, 2) /\ ret.b = R(5, 8)
    /\ ret.ab.rows = <<Zero, R(1, 4), R(1, 2), R(5, 8), One>>
    /\ ret.ba.size = [w |-> 3, h |-> 5]
    /\ ~ret.ab.asserted
    /\ m_columns = <<Zero, R(1, 4), One>>

=============================================================================
